---- MODULE Spec2Model ----
(***************************************************************************)
(* State-machine model of the MySQL -> ClickHouse migration tool           *)
(* (src/mysql_to_clickhouse.py): the streaming transfer migrate_data, the  *)
(* row-count check verify_migration, the per-table procedure migrate_table *)
(* and the run loop migrate_all_tables.                                    *)
(*                                                                         *)
(* A run is sequential; pc is the position of the single thread of one    *)
(* run.  Every call to the source, the target or the clock is an input of  *)
(* the action that makes it: whether it raises, what it returns, how much  *)
(* time has passed since the clock was last read.                          *)
(*                                                                         *)
(* The web application (src/app.py, src/database.py) runs each migration   *)
(* in a thread of run_migration_task: task holds the threads' positions,   *)
(* root_handlers the handler list of the process-wide root logger and      *)
(* ledger the task database.                                               *)
(*                                                                         *)
(* Python values: None of a string-valued field is the string "None"; an   *)
(* optional number or boolean is <<>> (None) or <<v>>.                     *)
(***************************************************************************)
EXTENDS Integers, Sequences, FiniteSets, TLC

VARIABLES
    tables,            \* migration_config['tables']
    advanced_config,   \* continue_on_error, drop_table_before_create, skip_empty_tables
    migration_config,  \* default_batch_size, default_verify
    pc,                \* position of the run's single thread
    idx,               \* loop variable of migrate_all_tables (1-based)
    table_result,      \* migrate_table's table_result dict
    call,              \* migrate_table's arguments, defaults resolved
    data,              \* arguments and locals of migrate_data
    data_result,       \* how the last migrate_data call ended
    verify_result,     \* how the last verify_migration call ended
    inserts,           \* batches handed to ch_client.insert by the current transfer
    progress,          \* [PROGRESS] lines emitted by the current transfer
    ch,                \* target database: table name -> [exists, rows]
    migration_stats,   \* self.migration_stats
    notifications,     \* calls made to the notifier, in order
    oplog,             \* source/target operations performed, in order, each
                       \* with whether it returned normally
    root_handlers,     \* logging.root.handlers: the task id of each TaskLogHandler
    task,              \* the run_migration_task threads, by task id
    ledger,            \* the task database: status, logs, table_migrations
    conn,              \* self.mysql_conn and self.ch_client: none, open, lost, closed
    webhook,           \* what the Feishu webhook does with a request
    column,            \* the DESCRIBE row (Type, Null) a type conversion is given
    column_type        \* what convert_mysql_type_to_clickhouse returned for it

vars == <<tables, advanced_config, migration_config, pc, idx, table_result, call,
          data, data_result, verify_result, inserts, progress, ch,
          migration_stats, notifications, oplog, root_handlers, task, ledger,
          conn, webhook, column, column_type>>

----------------------------------------------------------------------------
(* Bounds *)

MaxTables == 2      \* longest configured table list
MaxRows == 5        \* most rows a source table streams (transfer alone)
MaxBatch == 2       \* largest batch_size
MaxTick == 2        \* most clock ticks between two reads of the clock
MaxRunRows == 1     \* most rows a source table streams inside a whole run

(* Program constants *)

LogInterval == 3    \* migration_config.get('log_interval', 3), in ticks
LogEvery == 10      \* batch_count % 10 == 0

None == "None"

TableNames == {"t1", "t2"}

(* The values a cell of a source row can hold, by Python type as pymysql    *)
(* returns them: DATETIME/TIMESTAMP -> datetime.datetime, DATE ->           *)
(* datetime.date, TIME -> datetime.timedelta.                               *)
Kinds == <<"datetime", "int", "date", "str", "timedelta">>

(* Row k of a source table: an id column and a value column whose type     *)
(* depends on k.                                                           *)
SrcRow(k) ==
    << [kind |-> "int", v |-> k],
       [kind |-> Kinds[((k - 1) % Len(Kinds)) + 1], v |-> k] >>

(* isinstance(value, datetime) -> value.strftime('%Y-%m-%d %H:%M:%S') *)
ConvertValue(value) ==
    IF value.kind = "datetime" THEN [kind |-> "str", v |-> value.v] ELSE value

(* Mutant: the values of a row are appended in reverse column order. *)
ConvertRowReversed(row) ==
    [i \in 1..Len(row) |-> ConvertValue(row[Len(row) + 1 - i])]

(* row_data of one streamed row, over the resolved column order *)
ConvertRow(row) == [i \in 1..Len(row) |-> ConvertValue(row[i])]

----------------------------------------------------------------------------
(* migrate_data: the streaming transfer *)

NoData ==
    [mysql_table |-> None, ch_table |-> None, batch_size |-> 1,
     total_rows |-> 0, total_batches |-> 0, first_row |-> "unset",
     n |-> 0, pos |-> 0,
     batch_data |-> <<>>, migrated_rows |-> 0, batch_count |-> 0,
     now |-> 0, last_log_time |-> 0, last_batch_count |-> 0,
     cursors |-> {}]

NoDataResult == [raised |-> None, rows |-> 0, speed |-> 0]

(* The frame of migrate_data: what no step of the transfer touches. *)
DataFrame ==
    UNCHANGED <<tables, advanced_config, migration_config, idx, table_result,
                call, verify_result, migration_stats, notifications,
                root_handlers, task, ledger, conn, webhook, column, column_type>>

(* A call on the source connection works if the server answers and the     *)
(* connection is open; likewise on the target connection.                  *)
SourceOk(ok) == ok /\ conn.mysql = "open"
TargetOk(ok) == ok /\ conn.ch = "open"

(* str(e) of the exception of a call on a lost connection *)
ConnectionLost == "connection lost"

(* str(e) of a failed source call, err naming the call; of a target call *)
SourceError(err) == IF conn.mysql = "lost" THEN ConnectionLost ELSE err
TargetError(err) == IF conn.ch = "lost" THEN ConnectionLost ELSE err

(* The source cursors of migrate_data: cursor (the SSCursor of line 300),  *)
(* count_cursor (line 305) and schema_cursor (line 324).  data.cursors     *)
(* holds the ones that are open.                                           *)
Cursors == {"cursor", "count_cursor", "schema_cursor"}

(* finally: cursor.close() *)
Finally(d) == [d EXCEPT !.cursors = @ \ {"cursor"}]

(* An exception leaves migrate_data, with locals d, through its finally. *)
DataRaise(err, d) ==
    /\ data_result' = [raised |-> err, rows |-> 0, speed |-> 0]
    /\ data' = Finally(d)
    /\ pc' = "data_return"

(* return, through the finally *)
DataReturn(rows, speed, d) ==
    /\ data_result' = [raised |-> None, rows |-> rows, speed |-> speed]
    /\ data' = Finally(d)
    /\ pc' = "data_return"

(* x / t if t > 0 else 0, the quotient rounded down *)
SpeedOf(x, t) == IF t > 0 THEN x \div t ELSE 0

\* SELECT COUNT: cnt is what the count query returns.
DataCount(ok, cnt) ==
    /\ pc = "count"
    /\ oplog' = Append(oplog, <<idx, "count", SourceOk(ok)>>)
    /\ IF ~SourceOk(ok)
         THEN \* count_cursor.close() of line 309 is not reached
              DataRaise(SourceError("count"), [data EXCEPT !.cursors = @ \cup {"count_cursor"}])
         ELSE IF cnt = 0 /\ advanced_config.skip_empty_tables
                THEN DataReturn(0, 0, [data EXCEPT !.total_rows = cnt])
                ELSE /\ data' = [data EXCEPT
                                   !.total_rows = cnt,
                                   !.total_batches =
                                       (cnt + data.batch_size - 1) \div data.batch_size]
                     /\ pc' = "probe"
                     /\ UNCHANGED data_result
    /\ UNCHANGED <<inserts, progress, ch>>
    /\ DataFrame

\* The one-row probe for the column names: on an empty table fetchone()
\* is None and first_row.keys() raises AttributeError.
DataProbe(ok, empty) ==
    /\ pc = "probe"
    /\ oplog' = Append(oplog, <<idx, "probe", SourceOk(ok)>>)
    /\ IF ~SourceOk(ok)
         THEN \* schema_cursor.close() of line 328 is not reached
              DataRaise(SourceError("probe"), [data EXCEPT !.cursors = @ \cup {"schema_cursor"}])
         ELSE IF empty
                THEN DataRaise("'NoneType' object has no attribute 'keys'",
                               [data EXCEPT !.first_row = None,
                                            !.cursors = @ \cup {"schema_cursor"}])
                ELSE /\ data' = [data EXCEPT !.first_row = "row"]
                     /\ pc' = "execute"
                     /\ UNCHANGED data_result
    /\ UNCHANGED <<inserts, progress, ch>>
    /\ DataFrame

\* cursor.execute of the streaming query; n is the number of rows the
\* stream will yield.  The clock is read: start_time.
DataExecute(ok, n) ==
    /\ pc = "execute"
    /\ oplog' = Append(oplog, <<idx, "select", SourceOk(ok)>>)
    /\ IF ~SourceOk(ok)
         THEN DataRaise(SourceError("select"), data)
         ELSE /\ data' = [data EXCEPT
                            !.n = n, !.pos = 0, !.migrated_rows = 0,
                            !.batch_data = <<>>, !.batch_count = 0, !.now = 0,
                            !.last_log_time = 0, !.last_batch_count = 0]
              /\ pc' = "fetch"
              /\ UNCHANGED data_result
    /\ UNCHANGED <<inserts, progress, ch>>
    /\ DataFrame

(* Mutant: the batch is flushed one row late (> for >=). *)
BatchFullLate(batch, batch_size) == Len(batch) > batch_size

(* len(batch_data) >= batch_size *)
BatchFull(batch, batch_size) == Len(batch) >= batch_size

(* Mutant: the batch is kept after the write. *)
NotCleared(batch) == batch

(* batch_data = [] after a full batch was written *)
Cleared(batch) == <<>>

(* Mutant: a failed fetchone() is tried again. *)
DataFetchRetried(ok) ==
    /\ pc = "fetch"
    /\ oplog' = Append(oplog, <<idx, "fetch", SourceOk(ok)>>)
    /\ IF ~SourceOk(ok)
         THEN UNCHANGED <<pc, data, data_result>>
         ELSE IF data.pos < data.n
                THEN LET batch == Append(data.batch_data,
                                         ConvertRow(SrcRow(data.pos + 1)))
                     IN  /\ data' = [data EXCEPT !.pos = @ + 1,
                                                 !.batch_data = batch]
                         /\ pc' = IF BatchFull(batch, data.batch_size)
                                    THEN "flush" ELSE "fetch"
                         /\ UNCHANGED data_result
                ELSE pc' = "eos" /\ UNCHANGED <<data, data_result>>
    /\ UNCHANGED <<inserts, progress, ch>>
    /\ DataFrame

(* One cursor.fetchone(): a row is converted and appended to the batch. *)
DataFetch(ok) ==
    /\ pc = "fetch"
    /\ oplog' = Append(oplog, <<idx, "fetch", SourceOk(ok)>>)
    /\ IF ~SourceOk(ok)
         THEN DataRaise(SourceError("fetch"), data)
         ELSE IF data.pos < data.n
                THEN LET batch == Append(data.batch_data,
                                         ConvertRow(SrcRow(data.pos + 1)))
                     IN  /\ data' = [data EXCEPT !.pos = @ + 1,
                                                 !.batch_data = batch]
                         /\ pc' = IF BatchFull(batch, data.batch_size)
                                    THEN "flush" ELSE "fetch"
                         /\ UNCHANGED data_result
                ELSE pc' = "eos" /\ UNCHANGED <<data, data_result>>
    /\ UNCHANGED <<inserts, progress, ch>>
    /\ DataFrame

(* ch_client.insert(ch_table, batch): raises if the call fails or the      *)
(* table does not exist.                                                   *)
InsertOk(ok) == TargetOk(ok) /\ ch[data.ch_table].exists

Inserted(batch) == [ch EXCEPT ![data.ch_table].rows = @ \o batch]

ShouldLog(now, last_log_time, batch_count) ==
    \/ now - last_log_time >= LogInterval
    \/ batch_count % LogEvery = 0
    \/ batch_count = 1

(* avg_speed > 0, for avg_speed = migrated_rows / elapsed_time if         *)
(* elapsed_time > 0 else 0 as a float, which SpeedOf rounds down           *)
AvgSpeedPositive(migrated, elapsed) == elapsed > 0 /\ migrated > 0

(* progress = (migrated_rows / total_rows) * 100 as %.2f prints it, in     *)
(* hundredths of a percent                                                 *)
Percent(migrated, total_rows) ==
    (2 * 10000 * migrated + total_rows) \div (2 * total_rows)

(* eta_seconds = remaining_rows / avg_speed if avg_speed > 0 else 0, in    *)
(* whole seconds                                                           *)
EtaSeconds(total_rows, migrated, elapsed) ==
    IF AvgSpeedPositive(migrated, elapsed)
      THEN ((total_rows - migrated) * elapsed) \div migrated
      ELSE 0

(* int(current_speed): the rows of the batches since the last line over    *)
(* the time since the last line, or avg_speed when no time has passed      *)
CurrentSpeed(migrated, batch_count, now) ==
    LET recent_interval == now - data.last_log_time
        recent_batches == batch_count - data.last_batch_count
        recent_rows == recent_batches * data.batch_size
    IN  IF recent_interval > 0
          THEN recent_rows \div recent_interval
          ELSE SpeedOf(migrated, now)

(* _format_time: <<>> is "N/A", <<s>> is "{s}s", <<m, s>> is "{m}m {s}s"   *)
(* and <<h, m, s>> is "{h}h {m}m {s}s".                                    *)
FormatTime(seconds) ==
    IF seconds < 0 THEN <<>>
    ELSE IF seconds < 60 THEN <<seconds>>
    ELSE IF seconds < 3600 THEN <<seconds \div 60, seconds % 60>>
    ELSE <<seconds \div 3600, (seconds % 3600) \div 60, seconds % 60>>

(* A [PROGRESS] line: percent in hundredths, speed in rows/s, and the last *)
(* field, which is the ETA, or the elapsed Time on the final line.         *)
ProgressLine(rows, batch_count, final, percent, speed, eta) ==
    [rows |-> rows, total_rows |-> data.total_rows, batch |-> batch_count,
     final |-> final, percent |-> percent, speed |-> speed, eta |-> eta]

(* A full batch: insert, count, maybe log, clear.  dt is the time since    *)
(* the clock was last read.                                                *)
DataFlush(ok, dt) ==
    /\ pc = "flush"
    /\ oplog' = Append(oplog, <<idx, "insert", InsertOk(ok)>>)
    /\ inserts' = Append(inserts, data.batch_data)
    /\ IF ~InsertOk(ok)
         THEN DataRaise(TargetError("insert"), data) /\ UNCHANGED <<progress, ch>>
         ELSE LET migrated == data.migrated_rows + Len(data.batch_data)
                  count == data.batch_count + 1
                  now == data.now + dt
                  log == ShouldLog(now, data.last_log_time, count)
              IN  /\ ch' = Inserted(data.batch_data)
                  /\ IF log /\ data.total_rows = 0
                       THEN \* migrated_rows / total_rows: ZeroDivisionError
                            /\ DataRaise("division by zero",
                                         [data EXCEPT !.migrated_rows = migrated,
                                                      !.batch_count = count,
                                                      !.now = now])
                            /\ UNCHANGED progress
                       ELSE /\ data' = [data EXCEPT
                                   !.migrated_rows = migrated,
                                   !.batch_count = count,
                                   !.now = now,
                                   !.last_log_time = IF log THEN now ELSE @,
                                   !.last_batch_count = IF log THEN count ELSE @,
                                   !.batch_data = Cleared(@)]
                            /\ progress' = IF log
                                 THEN Append(progress,
                                        ProgressLine(migrated, count, FALSE,
                                          Percent(migrated, data.total_rows),
                                          CurrentSpeed(migrated, count, now),
                                          FormatTime(EtaSeconds(data.total_rows,
                                                                migrated, now))))
                                 ELSE progress
                            /\ pc' = "fetch"
                            /\ UNCHANGED data_result
    /\ DataFrame

(* fetchone() returned nothing: the leftover batch is written, the final   *)
(* line is logged, and the function returns.  dt, dt2: time since the      *)
(* clock was last read, at lines 353 and 415.                              *)
DataEndOfStream(ok, dt, dt2) ==
    /\ pc = "eos"
    /\ IF data.batch_data # <<>>
         THEN /\ oplog' = Append(oplog, <<idx, "insert", InsertOk(ok)>>)
              /\ inserts' = Append(inserts, data.batch_data)
              /\ IF ~InsertOk(ok)
                   THEN DataRaise(TargetError("insert"), data) /\ UNCHANGED <<progress, ch>>
                   ELSE LET migrated == data.migrated_rows + Len(data.batch_data)
                            count == data.batch_count + 1
                        IN  /\ ch' = Inserted(data.batch_data)
                            /\ progress' = Append(progress,
                                   ProgressLine(migrated, count, TRUE, 10000,
                                                SpeedOf(migrated, data.now + dt),
                                                FormatTime(data.now + dt)))
                            /\ DataReturn(migrated,
                                          SpeedOf(migrated, data.now + dt + dt2),
                                          [data EXCEPT !.migrated_rows = migrated,
                                                       !.batch_count = count,
                                                       !.now = @ + dt + dt2])
         ELSE /\ DataReturn(data.migrated_rows,
                            SpeedOf(data.migrated_rows, data.now + dt2),
                            [data EXCEPT !.now = @ + dt2])
              /\ UNCHANGED <<inserts, progress, ch, oplog>>
    /\ DataFrame

----------------------------------------------------------------------------
(* verify_migration *)

NoVerifyResult == [raised |-> None, mysql_count |-> 0, ch_count |-> 0,
                   value |-> FALSE]

(* Mutant: the target holding at least the source's rows passes. *)
VerifyResultAtLeast(mysql_count, ch_count) == mysql_count <= ch_count

(* mysql_count == ch_count *)
VerifyResult(mysql_count, ch_count) == mysql_count = ch_count

----------------------------------------------------------------------------
(* migrate_table and the loop body of migrate_all_tables *)

NoCall == [mysql_table |-> None, ch_table |-> None, batch_size |-> 1,
           verify |-> FALSE]

NoTableResult ==
    [mysql_table |-> None, ch_table |-> None, rows |-> 0, speed |-> 0,
     status |-> "failed", verified |-> FALSE, error |-> None]

Config == UNCHANGED <<tables, advanced_config, migration_config>>

(* No step of the migration class touches the web application's state. *)
NoApp == UNCHANGED <<root_handlers, task, ledger>>

(* No step of a table's migration opens or closes a connection, and none   *)
(* changes what the webhook does or the column a type conversion is given. *)
NoEnv == UNCHANGED <<conn, webhook, column, column_type>>

NoTransfer == UNCHANGED <<data, data_result, inserts, progress>>

NoVerify == UNCHANGED verify_result

(* The call is over: its locals are gone. *)
LeaveTable ==
    /\ table_result' = NoTableResult
    /\ call' = NoCall
    /\ data' = NoData
    /\ data_result' = NoDataResult
    /\ verify_result' = NoVerifyResult
    /\ inserts' = <<>>
    /\ progress' = <<>>

(* Mutant: failed_tables is incremented for every result (a lost else). *)
RecordResultBothCounters(result) ==
    /\ migration_stats' = [migration_stats EXCEPT
           !.success_tables = IF result.status = "success" THEN @ + 1 ELSE @,
           !.failed_tables = @ + 1,
           !.total_rows = @ + result.rows,
           !.table_details = Append(@, result)]
    /\ UNCHANGED notifications
    /\ idx' = idx + 1
    /\ pc' = "loop"

(* convert_mysql_type_to_clickhouse.  A type string is the sequence of     *)
(* its pieces: names and qualifiers (a qualifier carries its leading       *)
(* blank), the parentheses, and what stands between them, so that          *)
(* "int(10) unsigned" is <<"int", "(", "10", ")", " unsigned">>.  The      *)
(* string operations of the code act on these sequences.                   *)
TYPE_MAPPING ==
    ("tinyint" :> "Int8") @@ ("smallint" :> "Int16") @@
    ("mediumint" :> "Int32") @@ ("int" :> "Int32") @@
    ("integer" :> "Int32") @@ ("bigint" :> "Int64") @@
    ("float" :> "Float32") @@ ("double" :> "Float64") @@
    ("decimal" :> "Decimal") @@ ("char" :> "String") @@
    ("varchar" :> "String") @@ ("text" :> "String") @@
    ("tinytext" :> "String") @@ ("mediumtext" :> "String") @@
    ("longtext" :> "String") @@ ("date" :> "Date") @@
    ("datetime" :> "DateTime") @@ ("timestamp" :> "DateTime") @@
    ("time" :> "String") @@ ("year" :> "Int16") @@
    ("blob" :> "String") @@ ("tinyblob" :> "String") @@
    ("mediumblob" :> "String") @@ ("longblob" :> "String") @@
    ("json" :> "String") @@ ("enum" :> "String") @@ ("set" :> "String")

(* str.lower() of one piece; the upper-case spellings that occur *)
Lower(piece) ==
    CASE piece = "INT" -> "int"
      [] piece = "BIGINT" -> "bigint"
      [] piece = "DECIMAL" -> "decimal"
      [] piece = " UNSIGNED" -> " unsigned"
      [] OTHER -> piece

LowerStr(str) == [i \in 1..Len(str) |-> Lower(str[i])]

(* str.split(sep): the parts of str between the occurrences of sep *)
RECURSIVE Split(_, _)
Split(str, sep) ==
    IF \A i \in 1..Len(str) : str[i] # sep
      THEN <<str>>
      ELSE LET i == CHOOSE j \in 1..Len(str) :
                        str[j] = sep /\ \A k \in 1..(j - 1) : str[k] # sep
           IN  <<SubSeq(str, 1, i - 1)>>
                   \o Split(SubSeq(str, i + 1, Len(str)), sep)

(* 'unsigned' in str: the word occurs in one of the pieces *)
ContainsUnsigned(str) ==
    \E i \in 1..Len(str) :
        str[i] \in {" unsigned", "'unsigned'", "unsigned"}

(* TYPE_MAPPING.get(base_type, 'String'): base_type is a key only when it  *)
(* is one piece and that piece is a key.                                   *)
MappingGet(base_type) ==
    IF Len(base_type) = 1 /\ base_type[1] \in DOMAIN TYPE_MAPPING
      THEN <<TYPE_MAPPING[base_type[1]]>>
      ELSE <<"String">>

(* ch_type.startswith('Int') *)
StartsWithInt(ch_type) ==
    ch_type # <<>> /\ ch_type[1] \in {"Int8", "Int16", "Int32", "Int64"}

(* f'Nullable({ch_type})' *)
Nullable(ch_type) == <<"Nullable", "(">> \o ch_type \o <<")">>

(* Mutant: the Nullable wrapper is applied before the decimal precision.   *)
convert_wrap_first(mysql_type, is_nullable) ==
    LET base_type == LowerStr(Split(mysql_type, "(")[1])
        is_unsigned == ContainsUnsigned(LowerStr(mysql_type))
        mapped == MappingGet(base_type)
        promoted == IF is_unsigned /\ StartsWithInt(mapped)
                      THEN <<"U">> \o mapped
                      ELSE mapped
        wrapped == IF is_nullable = "YES" THEN Nullable(promoted) ELSE promoted
    IN  IF base_type = <<"decimal">> /\ (\E i \in 1..Len(mysql_type) :
                                            mysql_type[i] = "(")
          THEN <<"Decimal", "(">>
                   \o Split(Split(mysql_type, "(")[2], ")")[1] \o <<")">>
          ELSE wrapped

(* convert_mysql_type_to_clickhouse(mysql_type, is_nullable) *)
convert_mysql_type_to_clickhouse(mysql_type, is_nullable) ==
    LET base_type == LowerStr(Split(mysql_type, "(")[1])
        is_unsigned == ContainsUnsigned(LowerStr(mysql_type))
        mapped == MappingGet(base_type)
        promoted == IF is_unsigned /\ StartsWithInt(mapped)
                      THEN <<"U">> \o mapped
                      ELSE mapped
        parameterized ==
            IF base_type = <<"decimal">> /\ (\E i \in 1..Len(mysql_type) :
                                                mysql_type[i] = "(")
              THEN <<"Decimal", "(">>
                       \o Split(Split(mysql_type, "(")[2], ")")[1] \o <<")">>
              ELSE promoted
    IN  IF is_nullable = "YES" THEN Nullable(parameterized) ELSE parameterized

(* generate_clickhouse_ddl, for one column of the DESCRIBE result: its     *)
(* Type and Null are handed to the conversion.                             *)
ConvertColumn ==
    /\ pc = "column"
    /\ column_type' = <<convert_mysql_type_to_clickhouse(column.Type,
                                                         column.Null)>>
    /\ pc' = "converted"
    /\ UNCHANGED <<tables, advanced_config, migration_config, idx,
                   table_result, call, data, data_result, verify_result,
                   inserts, progress, ch, migration_stats, notifications,
                   oplog, conn, webhook, column>>
    /\ NoApp

(* FeishuNotifier.  What the webhook does with one request: it accepts     *)
(* the card, answers with an HTTP error, does not answer within the        *)
(* timeout, answers with a non-zero code, or answers with a body that is   *)
(* not JSON.                                                               *)
Outcomes == {"ok", "http_error", "timeout", "bad_code", "unparsable"}

(* requests.post raises on a timeout; an HTTP error status is not raised   *)
(* by requests.post, its body is parsed like any other.                    *)
PostRaises(outcome) == outcome = "timeout"

(* response.json() raises on a body that is not JSON *)
JsonRaises(outcome) == outcome = "unparsable"

(* result.get('code') == 0 *)
CodeIsZero(outcome) == outcome = "ok"

(* Mutant: send_card without its try/except. *)
SendCardNoExcept(outcome) ==
    [raised |-> PostRaises(outcome) \/ JsonRaises(outcome),
     delivered |-> /\ ~PostRaises(outcome)
                   /\ ~JsonRaises(outcome)
                   /\ CodeIsZero(outcome)]

(* send_card: the request, the parsing of the answer and the test of its   *)
(* code are inside a try whose except clause logs and returns False, so    *)
(* no exception leaves it.  notify_start, notify_success and               *)
(* notify_failure end with this call and drop what it returns.             *)
SendCard(outcome) ==
    [raised |-> FALSE,
     delivered |-> /\ ~PostRaises(outcome)
                   /\ ~JsonRaises(outcome)
                   /\ CodeIsZero(outcome)]

(* migrate_all_tables, after migrate_table returned a result *)
RecordResult(result) ==
    /\ migration_stats' = [migration_stats EXCEPT
           !.success_tables = IF result.status = "success" THEN @ + 1 ELSE @,
           !.failed_tables = IF result.status = "success" THEN @ ELSE @ + 1,
           !.total_rows = @ + result.rows,
           !.table_details = Append(@, result)]
    /\ UNCHANGED notifications
    /\ idx' = idx + 1
    /\ pc' = "loop"

(* Mutant: the except branch never re-raises. *)
RecordRaiseSwallowed(err) ==
    /\ migration_stats' = [migration_stats EXCEPT !.failed_tables = @ + 1]
    /\ notifications' = Append(notifications,
           [type |-> "failure", failed_table |-> call.mysql_table,
            error_message |-> err, total_tables |-> Len(tables),
            completed_tables |-> idx - 1,
            sent |-> SendCard(webhook).delivered])
    /\ pc' = "loop"
    /\ idx' = idx + 1

(* migrate_all_tables, except branch: migrate_table raised.  It is entered *)
(* only when continue_on_error is off, so its own re-raise always happens. *)
RecordRaise(err) ==
    /\ migration_stats' = [migration_stats EXCEPT !.failed_tables = @ + 1]
    /\ notifications' = Append(notifications,
           [type |-> "failure", failed_table |-> call.mysql_table,
            error_message |-> err, total_tables |-> Len(tables),
            completed_tables |-> idx - 1,
            sent |-> SendCard(webhook).delivered])
    /\ IF SendCard(webhook).raised \/ ~advanced_config.continue_on_error
         THEN pc' = "aborted" /\ idx' = idx
         ELSE pc' = "loop" /\ idx' = idx + 1

(* Mutant: migrate_table re-raises whatever continue_on_error is. *)
MigrateTableExceptAlwaysRaises(err) ==
    /\ RecordRaise(err)
    /\ LeaveTable

(* migrate_table, except branch *)
MigrateTableExcept(err) ==
    /\ LET result == [table_result EXCEPT !.error = err]
       IN  IF ~advanced_config.continue_on_error
             THEN RecordRaise(err)
             ELSE RecordResult(result)
    /\ LeaveTable

(* Mutant: a successful table is counted but its result is not listed. *)
MigrateTableSuccessNotListed(result) ==
    /\ migration_stats' = [migration_stats EXCEPT
           !.success_tables = @ + 1,
           !.total_rows = @ + result.rows]
    /\ UNCHANGED notifications
    /\ idx' = idx + 1
    /\ pc' = "loop"
    /\ LeaveTable

(* migrate_table, the end of the try block *)
MigrateTableSuccess(result) ==
    /\ RecordResult([result EXCEPT !.status = "success"])
    /\ LeaveTable

(* DESCRIBE `table` *)
GetStructure(ok) ==
    /\ pc = "structure"
    /\ oplog' = Append(oplog, <<idx, "describe", SourceOk(ok)>>)
    /\ IF ~SourceOk(ok)
         THEN MigrateTableExcept(SourceError("describe"))
         ELSE /\ pc' = "primary_key"
              /\ UNCHANGED <<idx, table_result, call, migration_stats, notifications>>
              /\ NoTransfer
              /\ NoVerify
    /\ UNCHANGED ch
    /\ Config
    /\ NoApp
    /\ NoEnv

(* Mutant: a failed primary key query does not stop the table. *)
GetPrimaryKeyUnchecked(ok) ==
    /\ pc = "primary_key"
    /\ oplog' = Append(oplog, <<idx, "primary_key", SourceOk(ok)>>)
    /\ pc' = "drop"
    /\ UNCHANGED <<idx, table_result, call, migration_stats, notifications>>
    /\ NoTransfer
    /\ NoVerify
    /\ UNCHANGED ch
    /\ Config
    /\ NoApp
    /\ NoEnv

(* SELECT COLUMN_NAME FROM INFORMATION_SCHEMA.KEY_COLUMN_USAGE *)
GetPrimaryKey(ok) ==
    /\ pc = "primary_key"
    /\ oplog' = Append(oplog, <<idx, "primary_key", SourceOk(ok)>>)
    /\ IF ~SourceOk(ok)
         THEN MigrateTableExcept(SourceError("primary_key"))
         ELSE /\ pc' = "drop"
              /\ UNCHANGED <<idx, table_result, call, migration_stats, notifications>>
              /\ NoTransfer
              /\ NoVerify
    /\ UNCHANGED ch
    /\ Config
    /\ NoApp
    /\ NoEnv

(* drop_table_if_exists *)
DropTable(ok) ==
    /\ pc = "drop"
    /\ IF ~advanced_config.drop_table_before_create
         THEN /\ pc' = "create"
              /\ UNCHANGED <<idx, table_result, call, migration_stats,
                             notifications, ch, oplog>>
              /\ NoTransfer
              /\ NoVerify
         ELSE /\ oplog' = Append(oplog, <<idx, "drop", TargetOk(ok)>>)
              /\ IF ~TargetOk(ok)
                   THEN MigrateTableExcept(TargetError("drop")) /\ UNCHANGED ch
                   ELSE /\ ch' = [ch EXCEPT ![call.ch_table] =
                                      [exists |-> FALSE, rows |-> <<>>]]
                        /\ pc' = "create"
                        /\ UNCHANGED <<idx, table_result, call, migration_stats,
                                       notifications>>
                        /\ NoTransfer
                        /\ NoVerify
    /\ Config
    /\ NoApp
    /\ NoEnv

(* generate_clickhouse_ddl, create_clickhouse_table (CREATE TABLE IF NOT   *)
(* EXISTS), then the call of migrate_data.                                 *)
CreateTable(ok) ==
    /\ pc = "create"
    /\ oplog' = Append(oplog, <<idx, "create", TargetOk(ok)>>)
    /\ IF ~TargetOk(ok)
         THEN MigrateTableExcept(TargetError("create")) /\ UNCHANGED ch
         ELSE /\ ch' = [ch EXCEPT ![call.ch_table].exists = TRUE]
              /\ data' = [NoData EXCEPT !.mysql_table = call.mysql_table,
                                        !.ch_table = call.ch_table,
                                        !.batch_size = call.batch_size,
                                        !.cursors = {"cursor"}]
              /\ pc' = "count"
              /\ UNCHANGED <<idx, table_result, call, migration_stats,
                             notifications, data_result, verify_result,
                             inserts, progress>>
    /\ Config
    /\ NoApp
    /\ NoEnv

(* verify_migration: the two count queries and the comparison *)
VerifyMigration(ok, mysql_count) ==
    /\ pc = "verify"
    /\ oplog' = Append(oplog, <<idx, "verify",
           SourceOk(ok) /\ TargetOk(ok) /\ ch[call.ch_table].exists>>)
    /\ verify_result' =
           IF ~(SourceOk(ok) /\ TargetOk(ok) /\ ch[call.ch_table].exists)
             THEN [NoVerifyResult EXCEPT !.raised =
                       SourceError(TargetError("verify"))]
             ELSE LET ch_count == Len(ch[call.ch_table].rows)
                  IN  [raised |-> None, mysql_count |-> mysql_count,
                       ch_count |-> ch_count,
                       value |-> VerifyResult(mysql_count, ch_count)]
    /\ pc' = "verify_return"
    /\ UNCHANGED <<idx, table_result, call, migration_stats, notifications, ch>>
    /\ NoTransfer
    /\ Config
    /\ NoApp
    /\ NoEnv

(* Mutant: a mismatch is raised as an error of the table. *)
AfterVerifyMismatchRaises ==
    /\ pc = "verify_return"
    /\ IF verify_result.raised # None
         THEN MigrateTableExcept(verify_result.raised)
         ELSE IF ~verify_result.value
                THEN MigrateTableExcept("mismatch")
                ELSE MigrateTableSuccess(
                         [table_result EXCEPT !.verified = verify_result.value])
    /\ UNCHANGED <<ch, oplog>>
    /\ Config
    /\ NoApp
    /\ NoEnv

(* verify_migration is back in migrate_table: the end of the try block *)
AfterVerify ==
    /\ pc = "verify_return"
    /\ IF verify_result.raised # None
         THEN MigrateTableExcept(verify_result.raised)
         ELSE MigrateTableSuccess(
                  [table_result EXCEPT !.verified = verify_result.value])
    /\ UNCHANGED <<ch, oplog>>
    /\ Config
    /\ NoApp
    /\ NoEnv

(* migrate_data is back in migrate_table *)
AfterMigrateData ==
    /\ pc = "data_return"
    /\ IF data_result.raised # None
         THEN MigrateTableExcept(data_result.raised)
         ELSE LET result == [table_result EXCEPT !.rows = data_result.rows,
                                                 !.speed = data_result.speed]
              IN  IF call.verify
                    THEN /\ table_result' = result
                         /\ pc' = "verify"
                         /\ UNCHANGED <<idx, call, migration_stats, notifications>>
                         /\ NoTransfer
                         /\ NoVerify
                    ELSE MigrateTableSuccess(result)
    /\ UNCHANGED <<ch, oplog>>
    /\ Config
    /\ NoApp
    /\ NoEnv

----------------------------------------------------------------------------
(* migrate_all_tables *)

ValidEntry(table_config) ==
    table_config.mysql_table # None /\ table_config.ch_table # None

(* batch_size / verify of the entry, or the configured default when None *)
Resolve(value, default) == IF value = <<>> THEN default ELSE value[1]

(* the head of migrate_all_tables: total_tables, the start notification *)
MigrateAllTables ==
    /\ pc = "start"
    /\ IF tables = <<>>
         THEN pc' = "done" /\ UNCHANGED <<migration_stats, notifications, idx>>
         ELSE /\ migration_stats' = [migration_stats EXCEPT
                                        !.total_tables = Len(tables)]
              /\ notifications' = Append(notifications,
                     [type |-> "start", tables |-> tables,
                      sent |-> SendCard(webhook).delivered])
              /\ IF SendCard(webhook).raised
                   THEN pc' = "aborted" /\ idx' = idx
                   ELSE pc' = "loop" /\ idx' = 1
    /\ UNCHANGED <<table_result, call, ch, oplog>>
    /\ NoTransfer
    /\ NoVerify
    /\ Config
    /\ NoApp
    /\ NoEnv

(* Mutant: an entry without a table name is counted as a failed table. *)
SkipInvalidCounted ==
    /\ pc = "loop"
    /\ idx <= Len(tables)
    /\ ~ValidEntry(tables[idx])
    /\ idx' = idx + 1
    /\ migration_stats' = [migration_stats EXCEPT !.failed_tables = @ + 1]
    /\ UNCHANGED <<pc, table_result, call, ch, notifications, oplog>>
    /\ NoTransfer
    /\ NoVerify
    /\ Config
    /\ NoApp
    /\ NoEnv

(* an entry without mysql_table or ch_table: logged, continue *)
SkipInvalid ==
    /\ pc = "loop"
    /\ idx <= Len(tables)
    /\ ~ValidEntry(tables[idx])
    /\ idx' = idx + 1
    /\ UNCHANGED <<pc, table_result, call, ch, migration_stats, notifications,
                   oplog>>
    /\ NoTransfer
    /\ NoVerify
    /\ Config
    /\ NoApp
    /\ NoEnv

(* a valid entry: migrate_table is called *)
BeginTable ==
    /\ pc = "loop"
    /\ idx <= Len(tables)
    /\ ValidEntry(tables[idx])
    /\ LET t == tables[idx]
       IN  /\ call' = [mysql_table |-> t.mysql_table, ch_table |-> t.ch_table,
                       batch_size |-> Resolve(t.batch_size,
                                              migration_config.default_batch_size),
                       verify |-> Resolve(t.verify,
                                          migration_config.default_verify)]
           /\ table_result' = [NoTableResult EXCEPT
                                  !.mysql_table = t.mysql_table,
                                  !.ch_table = t.ch_table]
    /\ pc' = "structure"
    /\ UNCHANGED <<idx, ch, migration_stats, notifications, oplog>>
    /\ NoTransfer
    /\ NoVerify
    /\ Config
    /\ NoApp
    /\ NoEnv

(* Mutant: the success notification is sent whatever failed_tables is. *)
RunEndAlwaysSuccess ==
    /\ pc = "loop"
    /\ idx > Len(tables)
    /\ notifications' = Append(notifications,
           [type |-> "success", summary |-> migration_stats,
            sent |-> SendCard(webhook).delivered])
    /\ pc' = "done"
    /\ UNCHANGED <<idx, table_result, call, ch, migration_stats, oplog>>
    /\ NoTransfer
    /\ NoVerify
    /\ Config
    /\ NoApp
    /\ NoEnv

(* after the loop: the success notification *)
RunEnd ==
    /\ pc = "loop"
    /\ idx > Len(tables)
    /\ notifications' =
           IF migration_stats.failed_tables = 0
             THEN Append(notifications,
                         [type |-> "success", summary |-> migration_stats,
                          sent |-> SendCard(webhook).delivered])
             ELSE notifications
    /\ pc' = IF migration_stats.failed_tables = 0 /\ SendCard(webhook).raised
               THEN "aborted"
               ELSE "done"
    /\ UNCHANGED <<idx, table_result, call, ch, migration_stats, oplog>>
    /\ NoTransfer
    /\ NoVerify
    /\ Config
    /\ NoApp
    /\ NoEnv

----------------------------------------------------------------------------
(* connect, close and the with statement around a run *)

NoConn == [mysql |-> "none", ch |-> "none"]

Connected == [mysql |-> "open", ch |-> "open"]

NoColumn == [Type |-> <<>>, Null |-> "NO"]

(* The frame of connect() and close(). *)
NoTable ==
    UNCHANGED <<tables, advanced_config, migration_config, idx, table_result,
                call, data, data_result, verify_result, inserts, progress, ch,
                migration_stats, notifications, oplog, webhook, column,
                column_type>>

(* Mutant: a failed connect() is swallowed and the run starts. *)
ConnectSwallowed(mysql_ok, ch_ok) ==
    /\ pc = "connect"
    /\ conn' = [mysql |-> IF mysql_ok THEN "open" ELSE conn.mysql,
                ch |-> IF mysql_ok /\ ch_ok THEN "open" ELSE conn.ch]
    /\ pc' = "start"
    /\ NoTable
    /\ NoApp

(* __enter__: connect().  pymysql.connect, then                            *)
(* clickhouse_connect.get_client; an exception of either is logged and     *)
(* raised again, so that the with block is not entered.                    *)
Connect(mysql_ok, ch_ok) ==
    /\ pc = "connect"
    /\ conn' = [mysql |-> IF mysql_ok THEN "open" ELSE conn.mysql,
                ch |-> IF mysql_ok /\ ch_ok THEN "open" ELSE conn.ch]
    /\ pc' = IF mysql_ok /\ ch_ok THEN "start" ELSE "connect_failed"
    /\ NoTable
    /\ NoApp

(* close(): each connection that was acquired is closed. *)
Closed(c) ==
    [k \in DOMAIN c |-> IF c[k] \in {"open", "lost"} THEN "closed" ELSE c[k]]

(* main: migrate_all_tables returned or raised, __exit__ calls close(). *)
MainExit ==
    /\ pc \in {"done", "aborted"}
    /\ conn' = Closed(conn)
    /\ pc' = "exit"
    /\ NoTable
    /\ NoApp

(* The positions of a run between connect() and the end of                 *)
(* migrate_all_tables.                                                     *)
InRun == pc \notin {"connect", "connect_failed", "done", "aborted", "exit",
                    "details", "except", "finished", "idle"}

(* The network or the server drops connection c in the middle of a run:    *)
(* every later call on it raises.                                          *)
LoseConnection(c) ==
    /\ InRun
    /\ conn[c] = "open"
    /\ conn' = [conn EXCEPT ![c] = "lost"]
    /\ UNCHANGED pc
    /\ NoTable
    /\ NoApp

----------------------------------------------------------------------------
(* app.py: the task threads, the process-wide root logger and the ledger *)

(* Task ids, as db.create_task hands them out. *)
Tasks == {1, 2}

NoTask == [pc |-> "unstarted", original_handlers |-> <<>>, detail |-> 0]

NoLedger == [status |-> [t \in Tasks |-> None], logs |-> {},
             table_migrations |-> <<>>]

(* The web application is not running: main() runs the migration. *)
AppIdle ==
    /\ root_handlers = <<>>
    /\ task = [t \in Tasks |-> NoTask]
    /\ ledger = NoLedger

(* No step of app.py outside the migration call touches the migration. *)
NoRun ==
    UNCHANGED <<tables, advanced_config, migration_config, idx, table_result,
                call, data, data_result, verify_result, inserts, progress, ch,
                migration_stats, notifications, oplog, conn, webhook, column,
                column_type>>

(* start_task: db.create_task stores the task as running, then the thread  *)
(* of run_migration_task is started.                                       *)
StartTask(t) ==
    /\ task[t].pc = "unstarted"
    /\ ledger' = [ledger EXCEPT !.status[t] = "running"]
    /\ task' = [task EXCEPT ![t].pc = "begin"]
    /\ UNCHANGED <<root_handlers, pc>>
    /\ NoRun

(* original_handlers = logging.root.handlers[:] *)
SaveHandlers(t) ==
    /\ task[t].pc = "begin"
    /\ task' = [task EXCEPT ![t].pc = "saved",
                            ![t].original_handlers = root_handlers]
    /\ UNCHANGED <<root_handlers, ledger, pc>>
    /\ NoRun

(* logging.root.handlers = [] *)
ClearHandlers(t) ==
    /\ task[t].pc = "saved"
    /\ root_handlers' = <<>>
    /\ task' = [task EXCEPT ![t].pc = "cleared"]
    /\ UNCHANGED <<ledger, pc>>
    /\ NoRun

(* logging.root.addHandler(TaskLogHandler(task_id, db)) *)
AddHandler(t) ==
    /\ task[t].pc = "cleared"
    /\ root_handlers' = Append(root_handlers, t)
    /\ task' = [task EXCEPT ![t].pc = "running"]
    /\ UNCHANGED <<ledger, pc>>
    /\ NoRun

(* TaskLogHandler.emit: db.add_log(self.task_id, ...) for a record that    *)
(* task `by` emitted through the logger `via`; a failing add_log is        *)
(* swallowed.                                                              *)
Emit(handler_task, by, via) == [task_id |-> handler_task, by |-> by, via |-> via]

(* A record of task t through a logger that propagates to the root logger  *)
(* (those of Config, of connect() before migration.logger is replaced, and *)
(* of the notifier): every handler of logging.root.handlers emits it.      *)
RootLog(t, ok) ==
    /\ task[t].pc = "running"
    /\ ledger' = [ledger EXCEPT !.logs =
           IF ok THEN @ \cup { Emit(root_handlers[i], t, "root") :
                               i \in 1..Len(root_handlers) }
                 ELSE @]
    /\ UNCHANGED <<root_handlers, task, pc>>
    /\ NoRun

(* A record of task t through its TaskLogger (propagate = False): the      *)
(* migration's own records, once migration.logger is the task logger.      *)
TaskLog(t, ok) ==
    /\ task[t].pc = "running"
    /\ ledger' = [ledger EXCEPT !.logs =
           IF ok THEN @ \cup {Emit(t, t, "task")} ELSE @]
    /\ UNCHANGED <<root_handlers, task, pc>>
    /\ NoRun

(* finally: logging.root.handlers = original_handlers *)
RestoreHandlers(t) ==
    /\ root_handlers' = task[t].original_handlers
    /\ task' = [task EXCEPT ![t].pc = "finished"]

(* The end of a thread whose migration is not part of the model: the       *)
(* status its outcome leads to is stored, if the ledger call works, and    *)
(* the finally clause restores the handlers.                               *)
EndTask(t, status, ok) ==
    /\ task[t].pc = "running"
    /\ ledger' = [ledger EXCEPT !.status[t] = IF ok THEN status ELSE @]
    /\ RestoreHandlers(t)
    /\ UNCHANGED pc
    /\ NoRun

(* The task whose migration is modelled step by step. *)
TaskId == 1

(* The frame of the ledger steps that follow migrate_all_tables. *)
AfterRun ==
    UNCHANGED <<tables, advanced_config, migration_config, idx, table_result,
                call, data, data_result, verify_result, inserts, progress, ch,
                migration_stats, notifications, oplog, webhook, column,
                column_type>>

(* db.update_task_status(task_id, 'completed', stats=...), after           *)
(* migrate_all_tables returned.  A raising call leaves the with block for  *)
(* the except clause.                                                      *)
UpdateCompleted(ok) ==
    /\ pc = "done"
    /\ task[TaskId].pc = "running"
    /\ IF ok
         THEN /\ ledger' = [ledger EXCEPT !.status[TaskId] = "completed"]
              /\ task' = [task EXCEPT ![TaskId].detail = 1]
              /\ pc' = "details"
         ELSE /\ pc' = "except"
              /\ UNCHANGED <<ledger, task>>
    /\ UNCHANGED <<root_handlers, conn>>
    /\ AfterRun

(* db.add_table_migration for the next entry of table_details *)
AddTableMigration(ok) ==
    /\ pc = "details"
    /\ task[TaskId].detail <= Len(migration_stats.table_details)
    /\ IF ok
         THEN LET d == migration_stats.table_details[task[TaskId].detail]
              IN  /\ ledger' = [ledger EXCEPT !.table_migrations =
                         Append(@, [task_id |-> TaskId,
                                    mysql_table |-> d.mysql_table,
                                    ch_table |-> d.ch_table,
                                    status |-> d.status, rows |-> d.rows,
                                    speed |-> d.speed, verified |-> d.verified,
                                    error_message |-> d.error])]
                  /\ task' = [task EXCEPT ![TaskId].detail = @ + 1]
                  /\ UNCHANGED pc
         ELSE /\ pc' = "except"
              /\ UNCHANGED <<ledger, task>>
    /\ UNCHANGED <<root_handlers, conn>>
    /\ AfterRun

(* Every entry is recorded: logger.info through the task logger, the with  *)
(* block is left, finally.                                                 *)
TaskCompleted(logged) ==
    /\ pc = "details"
    /\ task[TaskId].detail > Len(migration_stats.table_details)
    /\ ledger' = [ledger EXCEPT !.logs =
           IF logged THEN @ \cup {Emit(TaskId, TaskId, "task")} ELSE @]
    /\ conn' = Closed(conn)
    /\ RestoreHandlers(TaskId)
    /\ pc' = "finished"
    /\ AfterRun

(* except Exception: connect(), migrate_all_tables or a ledger call        *)
(* raised; __exit__ has closed the connections unless it was connect()     *)
(* that raised.  logger.error through the task logger, then                *)
(* db.update_task_status(task_id, 'failed', ...); if that raises too, the  *)
(* outer except clause makes the same call once more (ok2), after the      *)
(* finally, and if that one raises the thread dies of the exception.       *)
TaskFailed(logged, ok, ok2) ==
    /\ pc \in {"connect_failed", "aborted", "except"}
    /\ task[TaskId].pc = "running"
    /\ conn' = IF pc = "connect_failed" THEN conn ELSE Closed(conn)
    /\ ledger' = [ledger EXCEPT
           !.logs = IF logged THEN @ \cup {Emit(TaskId, TaskId, "task")} ELSE @,
           !.status[TaskId] = IF ok \/ ok2 THEN "failed" ELSE @]
    /\ root_handlers' = task[TaskId].original_handlers
    /\ task' = [task EXCEPT ![TaskId].pc =
                    IF ok \/ ok2 THEN "finished" ELSE "crashed"]
    /\ pc' = "finished"
    /\ AfterRun

----------------------------------------------------------------------------
(* Specifications *)

(* The table_config entries a list is drawn from: a valid entry that      *)
(* leaves batch_size and verify to the defaults, a valid entry that sets   *)
(* both, an entry without mysql_table and an entry without ch_table.       *)
TableConfigs ==
    { [mysql_table |-> "t1", ch_table |-> "t1", batch_size |-> <<>>, verify |-> <<>>],
      [mysql_table |-> "t2", ch_table |-> "t2", batch_size |-> <<1>>,
       verify |-> <<FALSE>>],
      [mysql_table |-> None, ch_table |-> "t1", batch_size |-> <<>>, verify |-> <<>>],
      [mysql_table |-> "t2", ch_table |-> None, batch_size |-> <<>>, verify |-> <<>>] }

TableLists == UNION { [1..k -> TableConfigs] : k \in 0..MaxTables }

StaleRow == << [kind |-> "int", v |-> 0], [kind |-> "str", v |-> 0] >>

NoStats == [total_tables |-> 0, success_tables |-> 0, failed_tables |-> 0,
            total_rows |-> 0, table_details |-> <<>>]

Ticks == 0..MaxTick
RunTicks == {1}

(* A whole run: the state after construction and connect().  The target  *)
(* tables are all absent or all pre-existing with one stale row.  The      *)
(* run's wall-clock fields (time_used, total_time, avg_speed of the run)   *)
(* are not part of the state: no step of the run reads them.               *)
Init ==
    /\ tables \in TableLists
    /\ advanced_config \in [continue_on_error : BOOLEAN,
                            drop_table_before_create : BOOLEAN,
                            skip_empty_tables : BOOLEAN]
    /\ migration_config = [default_batch_size |-> MaxBatch, default_verify |-> TRUE]
    /\ pc = "start"
    /\ idx = 0
    /\ table_result = NoTableResult
    /\ call = NoCall
    /\ data = NoData
    /\ data_result = NoDataResult
    /\ verify_result = NoVerifyResult
    /\ inserts = <<>>
    /\ progress = <<>>
    /\ \E pre \in BOOLEAN :
           ch = [t \in TableNames |->
                   [exists |-> pre, rows |-> IF pre THEN <<StaleRow>> ELSE <<>>]]
    /\ migration_stats = NoStats
    /\ notifications = <<>>
    /\ oplog = <<>>
    /\ conn = Connected
    /\ webhook = "ok"
    /\ column = NoColumn
    /\ column_type = <<>>
    /\ AppIdle

DataNext(counts, ticks) ==
    \/ \E ok \in BOOLEAN, cnt \in counts : DataCount(ok, cnt)
    \/ \E ok \in BOOLEAN, empty \in BOOLEAN : DataProbe(ok, empty)
    \/ \E ok \in BOOLEAN, n \in counts : DataExecute(ok, n)
    \/ \E ok \in BOOLEAN : DataFetch(ok)
    \/ \E ok \in BOOLEAN, dt \in ticks : DataFlush(ok, dt)
    \/ \E ok \in BOOLEAN, dt \in ticks, dt2 \in ticks : DataEndOfStream(ok, dt, dt2)

Next ==
    \/ MigrateAllTables
    \/ SkipInvalid
    \/ BeginTable
    \/ RunEnd
    \/ \E ok \in BOOLEAN : GetStructure(ok)
    \/ \E ok \in BOOLEAN : GetPrimaryKey(ok)
    \/ \E ok \in BOOLEAN : DropTable(ok)
    \/ \E ok \in BOOLEAN : CreateTable(ok)
    \/ AfterMigrateData
    \/ \E ok \in BOOLEAN, c \in 0..MaxRunRows : VerifyMigration(ok, c)
    \/ AfterVerify
    \/ DataNext(0..MaxRunRows, RunTicks)

Spec == Init /\ [][Next]_vars

(* run_migration_task, from the with statement on: the task was created   *)
(* and its handler is the only one of the root logger.  The target tables  *)
(* do not exist yet.                                                       *)
InitTask ==
    /\ tables \in TableLists
    /\ advanced_config \in [continue_on_error : BOOLEAN,
                            drop_table_before_create : {TRUE},
                            skip_empty_tables : {TRUE}]
    /\ migration_config = [default_batch_size |-> MaxBatch, default_verify |-> TRUE]
    /\ pc = "connect"
    /\ idx = 0
    /\ table_result = NoTableResult
    /\ call = NoCall
    /\ data = NoData
    /\ data_result = NoDataResult
    /\ verify_result = NoVerifyResult
    /\ inserts = <<>>
    /\ progress = <<>>
    /\ ch = [t \in TableNames |-> [exists |-> FALSE, rows |-> <<>>]]
    /\ migration_stats = NoStats
    /\ notifications = <<>>
    /\ oplog = <<>>
    /\ conn = NoConn
    /\ webhook = "ok"
    /\ column = NoColumn
    /\ column_type = <<>>
    /\ root_handlers = <<TaskId>>
    /\ task = [t \in Tasks |-> IF t = TaskId
                                 THEN [NoTask EXCEPT !.pc = "running"]
                                 ELSE NoTask]
    /\ ledger = [NoLedger EXCEPT !.status[TaskId] = "running"]

NextTask ==
    \/ \E mysql_ok \in BOOLEAN, ch_ok \in BOOLEAN : Connect(mysql_ok, ch_ok)
    \/ Next
    \/ \E ok \in BOOLEAN : UpdateCompleted(ok)
    \/ \E ok \in BOOLEAN : AddTableMigration(ok)
    \/ \E logged \in BOOLEAN : TaskCompleted(logged)
    \/ \E logged \in BOOLEAN, ok \in BOOLEAN, ok2 \in BOOLEAN :
           TaskFailed(logged, ok, ok2)

SpecTask == InitTask /\ [][NextTask]_vars

(* main(): connect(), the run, close().  In this specification a           *)
(* connection can be lost in the middle of the run.  The target tables do  *)
(* not exist yet.                                                          *)
InitMain ==
    /\ tables \in TableLists
    /\ advanced_config \in [continue_on_error : BOOLEAN,
                            drop_table_before_create : {TRUE},
                            skip_empty_tables : {TRUE}]
    /\ migration_config = [default_batch_size |-> MaxBatch, default_verify |-> TRUE]
    /\ pc = "connect"
    /\ idx = 0
    /\ table_result = NoTableResult
    /\ call = NoCall
    /\ data = NoData
    /\ data_result = NoDataResult
    /\ verify_result = NoVerifyResult
    /\ inserts = <<>>
    /\ progress = <<>>
    /\ ch = [t \in TableNames |-> [exists |-> FALSE, rows |-> <<>>]]
    /\ migration_stats = NoStats
    /\ notifications = <<>>
    /\ oplog = <<>>
    /\ conn = NoConn
    /\ webhook = "ok"
    /\ column = NoColumn
    /\ column_type = <<>>
    /\ AppIdle

NextMain ==
    \/ \E mysql_ok \in BOOLEAN, ch_ok \in BOOLEAN : Connect(mysql_ok, ch_ok)
    \/ Next
    \/ \E c \in {"mysql", "ch"} : LoseConnection(c)
    \/ MainExit

SpecMain == InitMain /\ [][NextMain]_vars

(* A run (migrate_all_tables on established connections) against a        *)
(* webhook that treats every request of the run in one of the ways of      *)
(* Outcomes.                                                               *)
InitNotify ==
    /\ tables \in TableLists
    /\ advanced_config \in [continue_on_error : BOOLEAN,
                            drop_table_before_create : {TRUE},
                            skip_empty_tables : {TRUE}]
    /\ migration_config = [default_batch_size |-> MaxBatch, default_verify |-> TRUE]
    /\ pc = "start"
    /\ idx = 0
    /\ table_result = NoTableResult
    /\ call = NoCall
    /\ data = NoData
    /\ data_result = NoDataResult
    /\ verify_result = NoVerifyResult
    /\ inserts = <<>>
    /\ progress = <<>>
    /\ ch = [t \in TableNames |-> [exists |-> FALSE, rows |-> <<>>]]
    /\ migration_stats = NoStats
    /\ notifications = <<>>
    /\ oplog = <<>>
    /\ conn = Connected
    /\ webhook \in Outcomes
    /\ column = NoColumn
    /\ column_type = <<>>
    /\ AppIdle

SpecNotify == InitNotify /\ [][Next]_vars

(* The columns DESCRIBE can report: a type name in lower or upper case,    *)
(* known to TYPE_MAPPING or not, with or without a parenthesized           *)
(* argument, with or without qualifiers, nullable or not.                  *)
TypeNames ==
    DOMAIN TYPE_MAPPING \cup {"geometry", "INT", "BIGINT", "DECIMAL"}

TypeArguments == {<<>>, <<"(", "10", ")">>, <<"(", "10,2", ")">>,
                  <<"(", "'unsigned'", ")">>}

TypeQualifiers == {<<>>, <<" unsigned">>, <<" UNSIGNED">>,
                   <<" unsigned", " zerofill">>}

MySQLTypes ==
    {<<>>} \cup {<<n>> \o a \o q : n \in TypeNames, a \in TypeArguments,
                                   q \in TypeQualifiers}

InitType ==
    /\ tables = <<>>
    /\ advanced_config = [continue_on_error |-> FALSE,
                          drop_table_before_create |-> TRUE,
                          skip_empty_tables |-> TRUE]
    /\ migration_config = [default_batch_size |-> 1, default_verify |-> TRUE]
    /\ pc = "column"
    /\ idx = 0
    /\ table_result = NoTableResult
    /\ call = NoCall
    /\ data = NoData
    /\ data_result = NoDataResult
    /\ verify_result = NoVerifyResult
    /\ inserts = <<>>
    /\ progress = <<>>
    /\ ch = [t \in TableNames |-> [exists |-> FALSE, rows |-> <<>>]]
    /\ migration_stats = NoStats
    /\ notifications = <<>>
    /\ oplog = <<>>
    /\ conn = Connected
    /\ webhook = "ok"
    /\ column \in [Type : MySQLTypes, Null : {"YES", "NO"}]
    /\ column_type = <<>>
    /\ AppIdle

NextType == ConvertColumn

SpecType == InitType /\ [][NextType]_vars

(* The same table mapping migrated twice in one run, from a source that    *)
(* does not change and with every source and target call succeeding: the   *)
(* source table t1 holds MaxRows rows and t2 is empty, whenever they are    *)
(* counted, probed or streamed.  The drop policy is on and verification is *)
(* requested.                                                              *)
SourceRows(t) == IF t = "t1" THEN MaxRows ELSE 0

TwiceConfigs ==
    { [mysql_table |-> t, ch_table |-> t, batch_size |-> b, verify |-> <<>>] :
          t \in TableNames, b \in {<<>>, <<1>>} }

InitTwice ==
    /\ tables \in { <<c, c>> : c \in TwiceConfigs }
    /\ advanced_config \in [continue_on_error : BOOLEAN,
                            drop_table_before_create : {TRUE},
                            skip_empty_tables : BOOLEAN]
    /\ migration_config = [default_batch_size |-> MaxBatch, default_verify |-> TRUE]
    /\ pc = "start"
    /\ idx = 0
    /\ table_result = NoTableResult
    /\ call = NoCall
    /\ data = NoData
    /\ data_result = NoDataResult
    /\ verify_result = NoVerifyResult
    /\ inserts = <<>>
    /\ progress = <<>>
    /\ \E pre \in BOOLEAN :
           ch = [t \in TableNames |->
                   [exists |-> pre, rows |-> IF pre THEN <<StaleRow>> ELSE <<>>]]
    /\ migration_stats = NoStats
    /\ notifications = <<>>
    /\ oplog = <<>>
    /\ conn = Connected
    /\ webhook = "ok"
    /\ column = NoColumn
    /\ column_type = <<>>
    /\ AppIdle

NextTwice ==
    \/ MigrateAllTables
    \/ BeginTable
    \/ RunEnd
    \/ GetStructure(TRUE)
    \/ GetPrimaryKey(TRUE)
    \/ DropTable(TRUE)
    \/ CreateTable(TRUE)
    \/ DataCount(TRUE, SourceRows(call.mysql_table))
    \/ DataProbe(TRUE, SourceRows(call.mysql_table) = 0)
    \/ DataExecute(TRUE, SourceRows(call.mysql_table))
    \/ DataFetch(TRUE)
    \/ \E dt \in Ticks : DataFlush(TRUE, dt)
    \/ \E dt \in Ticks, dt2 \in Ticks : DataEndOfStream(TRUE, dt, dt2)
    \/ AfterMigrateData
    \/ VerifyMigration(TRUE, SourceRows(call.mysql_table))
    \/ AfterVerify

SpecTwice == InitTwice /\ [][NextTwice]_vars

(* Two tasks started through start_task, each thread at the granularity    *)
(* of its logging calls.  What the migrations transfer is outside this     *)
(* specification: the migration's variables stay as constructed.           *)
InitLog ==
    /\ tables = <<>>
    /\ advanced_config = [continue_on_error |-> FALSE,
                          drop_table_before_create |-> TRUE,
                          skip_empty_tables |-> TRUE]
    /\ migration_config = [default_batch_size |-> 1, default_verify |-> TRUE]
    /\ pc = "idle"
    /\ idx = 0
    /\ table_result = NoTableResult
    /\ call = NoCall
    /\ data = NoData
    /\ data_result = NoDataResult
    /\ verify_result = NoVerifyResult
    /\ inserts = <<>>
    /\ progress = <<>>
    /\ ch = [t \in TableNames |-> [exists |-> FALSE, rows |-> <<>>]]
    /\ migration_stats = NoStats
    /\ notifications = <<>>
    /\ oplog = <<>>
    /\ conn = NoConn
    /\ webhook = "ok"
    /\ column = NoColumn
    /\ column_type = <<>>
    /\ AppIdle

NextLog ==
    \E t \in Tasks :
        \/ StartTask(t)
        \/ SaveHandlers(t)
        \/ ClearHandlers(t)
        \/ AddHandler(t)
        \/ \E ok \in BOOLEAN : RootLog(t, ok)
        \/ \E ok \in BOOLEAN : TaskLog(t, ok)
        \/ \E status \in {"completed", "failed"}, ok \in BOOLEAN :
               EndTask(t, status, ok)

SpecLog == InitLog /\ [][NextLog]_vars

(* migrate_data alone: called on an existing, empty target table. *)
InitData ==
    /\ tables = <<>>
    /\ advanced_config \in [continue_on_error : {FALSE},
                            drop_table_before_create : {TRUE},
                            skip_empty_tables : BOOLEAN]
    /\ migration_config = [default_batch_size |-> 1, default_verify |-> TRUE]
    /\ pc = "count"
    /\ idx = 1
    /\ table_result = NoTableResult
    /\ call = NoCall
    /\ \E b \in 1..MaxBatch :
           data = [NoData EXCEPT !.mysql_table = "t1", !.ch_table = "t1",
                                 !.batch_size = b, !.cursors = {"cursor"}]
    /\ data_result = NoDataResult
    /\ verify_result = NoVerifyResult
    /\ inserts = <<>>
    /\ progress = <<>>
    /\ ch = [t \in TableNames |-> [exists |-> TRUE, rows |-> <<>>]]
    /\ migration_stats = NoStats
    /\ notifications = <<>>
    /\ oplog = <<>>
    /\ conn = Connected
    /\ webhook = "ok"
    /\ column = NoColumn
    /\ column_type = <<>>
    /\ AppIdle

NextData == DataNext(0..MaxRows, Ticks)

SpecData == InitData /\ [][NextData]_vars

----------------------------------------------------------------------------
(* Claims about migrate_data, checked under SpecData *)

CeilDiv(n, b) == (n + b - 1) \div b

Completed == pc = "data_return" /\ data_result.raised = None

(* C1: a transfer whose stream yields n >= 1 rows and that completes       *)
(* without error has issued exactly ceil(n/b) bulk writes; every write but *)
(* the last holds b rows, the last holds n - b*(ceil(n/b)-1) rows, and the *)
(* returned rows_transferred is n.                                         *)
C1_WritesAreCeilNOverB ==
    (Completed /\ data.n >= 1) =>
        LET n == data.n
            b == data.batch_size
            k == CeilDiv(n, b)
        IN  /\ Len(inserts) = k
            /\ \A i \in 1..(k - 1) : Len(inserts[i]) = b
            /\ Len(inserts[k]) = n - b * (k - 1)
            /\ data_result.rows = n

(* C1 witness: 5 rows in batches of 2 were written as 2 + 2 + 1. *)
C1_Witness ==
    /\ Completed
    /\ data.n = 5
    /\ data.batch_size = 2
    /\ Len(inserts) = 3
    /\ Len(inserts[3]) = 1
    /\ data_result.rows = 5

(* What a failed source or target call raises, as opposed to an exception  *)
(* the program raises on its own.                                          *)
IOFailures == {"count", "probe", "select", "fetch", "insert"}

(* The source table was empty whenever the transfer looked at it, and the  *)
(* transfer is over without a failed source or target call.                *)
EmptyTableTransferred ==
    /\ pc = "data_return"
    /\ data_result.raised \notin IOFailures
    /\ data.total_rows = 0
    /\ data.first_row # "row"
    /\ data.n = 0

(* C2: a transfer on a source table with zero rows returns (0, 0) and      *)
(* issues zero writes, without raising, whatever skip_empty_tables is.     *)
C2_EmptyTableReturnsZero ==
    EmptyTableTransferred =>
        /\ data_result = [raised |-> None, rows |-> 0, speed |-> 0]
        /\ inserts = <<>>

(* C3: the batch buffer never holds more than batch_size rows, it holds    *)
(* fewer than batch_size rows whenever the next row is about to be read,   *)
(* and every bulk write inside the loop that does not raise leaves it      *)
(* empty.                                                                  *)
C3_BufferBounded ==
    /\ [](/\ Len(data.batch_data) <= data.batch_size
          /\ pc = "fetch" => Len(data.batch_data) < data.batch_size)
    /\ [][(pc = "flush" /\ pc' = "fetch") => data'.batch_data = <<>>]_vars

(* C3 witness: a second full batch is in the buffer, the first one having  *)
(* been written and cleared.                                               *)
C3_Witness ==
    /\ pc = "flush"
    /\ data.batch_size = 2
    /\ data.pos = 4
    /\ data.migrated_rows = 2
    /\ Len(data.batch_data) = 2

----------------------------------------------------------------------------
(* Claims about a whole run, checked under Spec *)

Min(a, b) == IF a < b THEN a ELSE b

Indices == [i \in 1..Len(tables) |-> i]

IsValidIndex(i) == ValidEntry(tables[i])

(* The valid entries whose loop iteration is over, in configured order. *)
FinishedSeq == SelectSeq(SubSeq(Indices, 1, Min(idx - 1, Len(tables))), IsValidIndex)

InTable == pc \notin {"start", "loop", "done", "aborted"}

(* The entries for which migrate_table has issued its first query. *)
AttemptedSeq ==
    IF (InTable /\ pc # "structure") \/ pc = "aborted"
      THEN Append(FinishedSeq, idx) ELSE FinishedSeq

IsDescribe(entry) == entry[2] = "describe"

DescribedSeq ==
    LET d == SelectSeq(oplog, IsDescribe) IN [k \in 1..Len(d) |-> d[k][1]]

Details == migration_stats.table_details

Introspection == {"describe", "primary_key"}

Last(seq) == seq[Len(seq)]

(* C4, in every state of a run under continue_on_error. *)
C4_State ==
    /\ pc # "aborted"
    /\ DescribedSeq = AttemptedSeq
    /\ Len(Details) = Len(FinishedSeq)
    /\ \A k \in 1..Len(Details) :
           /\ Details[k].mysql_table = tables[FinishedSeq[k]].mysql_table
           /\ Details[k].ch_table = tables[FinishedSeq[k]].ch_table
    /\ pc = "done" => FinishedSeq = SelectSeq(Indices, IsValidIndex)
    /\ ( /\ pc = "done"
         /\ Len(tables) = 2
         /\ Len(Details) = 2
         /\ Details[1].status = "success"
         /\ Details[2].error \in Introspection )
       => /\ migration_stats.total_tables = 2
          /\ migration_stats.success_tables = 1
          /\ migration_stats.failed_tables = 1

(* C4, a step in which the introspection of a table fails. *)
C4_IntrospectionFails ==
    (pc \in {"structure", "primary_key"} /\ pc' \notin {"primary_key", "drop"})
    => /\ pc' = "loop"
       /\ idx' = idx + 1
       /\ Len(Details') = Len(Details) + 1
       /\ Last(Details').mysql_table = call.mysql_table
       /\ Last(Details').status = "failed"
       /\ Last(Details').error # None
       /\ Last(Details').rows = 0

(* C4: under continue_on_error a table failure never stops the run: every  *)
(* valid entry is attempted exactly once, in configured order, and yields  *)
(* exactly one recorded result; a table whose introspection fails yields a *)
(* result with status failed, an error and 0 rows; and when of two tables  *)
(* the first succeeds and the second's introspection fails the run ends    *)
(* with total_tables 2, success_tables 1, failed_tables 1.                 *)
C4_ContinueOnError ==
    /\ [](advanced_config.continue_on_error => C4_State)
    /\ [][advanced_config.continue_on_error => C4_IntrospectionFails]_vars

(* C4 witness: the two-table scenario at run end. *)
C4_Witness ==
    /\ advanced_config.continue_on_error
    /\ pc = "done"
    /\ Len(tables) = 2
    /\ Len(Details) = 2
    /\ Details[1].status = "success"
    /\ Details[2].status = "failed"
    /\ Details[2].error = "describe"
    /\ Details[2].rows = 0
    /\ migration_stats.total_tables = 2
    /\ migration_stats.success_tables = 1
    /\ migration_stats.failed_tables = 1

(* C5, in every state of a run without continue_on_error. *)
C5_State ==
    /\ migration_stats.failed_tables > 0
       => pc = "aborted" /\ migration_stats.failed_tables = 1
    /\ Len(Details) = Len(FinishedSeq)
    /\ \A k \in 1..Len(Details) : Details[k].status = "success"
    /\ \A k \in 1..Len(oplog) : oplog[k][1] <= idx
    /\ pc = "aborted" => IsValidIndex(idx) /\ idx \notin { FinishedSeq[k] : k \in 1..Len(FinishedSeq) }

(* C5: without continue_on_error the first table failure propagates out of *)
(* migrate_all_tables: no result is recorded for the failing table, and    *)
(* nothing is done for any later table (nothing at all happens after it).  *)
C5_AbortOnError ==
    /\ [](~advanced_config.continue_on_error => C5_State)
    /\ [][~advanced_config.continue_on_error => pc # "aborted"]_vars

(* C5 witness: the first of two valid tables failed; the second was never  *)
(* touched and nothing was recorded.                                       *)
C5_Witness ==
    /\ ~advanced_config.continue_on_error
    /\ pc = "aborted"
    /\ idx = 1
    /\ Len(tables) = 2
    /\ IsValidIndex(2)
    /\ Details = <<>>
    /\ migration_stats.failed_tables = 1

Counted == migration_stats.success_tables + migration_stats.failed_tables

(* The valid entries the loop has reached. *)
Reached == { i \in 1..Len(tables) : i <= idx /\ IsValidIndex(i) }

(* C6: success_tables + failed_tables never exceeds total_tables, nor the  *)
(* number of table mappings reached: a mapping is counted at most once, in *)
(* one of the two counters.                                                *)
C6_CountersWithinTotal ==
    /\ Counted <= migration_stats.total_tables
    /\ Counted <= Cardinality(Reached)

(* C6 witness: a run of two tables ended with one success and one failure. *)
C6_Witness ==
    /\ pc = "done"
    /\ migration_stats.total_tables = 2
    /\ migration_stats.success_tables = 1
    /\ migration_stats.failed_tables = 1

(* C7: at a run end that was not an abort, success_tables + failed_tables  *)
(* equals total_tables, also for lists that hold invalid entries.          *)
C7_CountersEqualTotalAtEnd ==
    pc = "done" => Counted = migration_stats.total_tables

IsFailure(note) == note.type = "failure"
IsStart(note) == note.type = "start"
IsSuccess(note) == note.type = "success"

(* C8: every table that ended FAILED has triggered exactly one failure     *)
(* notification, sent as the table fails: the number of failure            *)
(* notifications sent always equals the number of failed tables.           *)
C8_OneFailureNotificationPerFailedTable ==
    Len(SelectSeq(notifications, IsFailure)) = migration_stats.failed_tables

(* C9: in a run over a non-empty table list the start notification is sent *)
(* exactly once, before any source or target operation; the success        *)
(* notification is sent exactly once, as the last act of the run, if and   *)
(* only if the run reached its end with failed_tables = 0.                 *)
C9_StartAndSuccessNotifications ==
    tables # <<>> =>
        /\ pc = "start" => notifications = <<>> /\ oplog = <<>>
        /\ pc # "start" =>
               /\ Len(SelectSeq(notifications, IsStart)) = 1
               /\ IsStart(notifications[1])
        /\ Len(SelectSeq(notifications, IsSuccess)) =
               IF pc = "done" /\ migration_stats.failed_tables = 0 THEN 1 ELSE 0
        /\ \A k \in 1..Len(notifications) :
               IsSuccess(notifications[k]) => k = Len(notifications)

(* C9 witness: a run with a successful table ended and sent start, then    *)
(* success.                                                                *)
C9_Witness ==
    /\ pc = "done"
    /\ migration_stats.success_tables >= 1
    /\ migration_stats.failed_tables = 0
    /\ Len(notifications) = 2
    /\ IsStart(notifications[1])
    /\ IsSuccess(notifications[2])

(* C10: when verify_migration has obtained both counts it does not raise   *)
(* and returns true exactly if they are equal.                             *)
C10_VerifyIffCountsEqual ==
    (pc = "verify_return" /\ verify_result.raised = None) =>
        /\ verify_result.ch_count = Len(ch[call.ch_table].rows)
        /\ verify_result.value =
               (verify_result.mysql_count = verify_result.ch_count)

(* C10 witness: the counts differ and verify_migration returned false. *)
C10_Witness ==
    /\ pc = "verify_return"
    /\ verify_result.raised = None
    /\ verify_result.mysql_count < verify_result.ch_count
    /\ verify_result.value = FALSE

(* C11: a row-count mismatch found by verification never fails the table: *)
(* when migrate_table comes back from a verification that returned false,  *)
(* the table's result is recorded with status success and verified false,  *)
(* success_tables grows by one, failed_tables stays, and no notification   *)
(* is sent.                                                                *)
C11_MismatchNeverFails ==
    [][ (pc = "verify_return" /\ verify_result.raised = None
                              /\ ~verify_result.value) =>
            /\ Len(Details') = Len(Details) + 1
            /\ Last(Details').mysql_table = call.mysql_table
            /\ Last(Details').status = "success"
            /\ Last(Details').verified = FALSE
            /\ Last(Details').error = None
            /\ migration_stats'.success_tables = migration_stats.success_tables + 1
            /\ migration_stats'.failed_tables = migration_stats.failed_tables
            /\ notifications' = notifications ]_vars

(* C11 witness: t1 is verified by default; its result was recorded as a    *)
(* success that is not verified, while the source count differed from the  *)
(* target's.                                                               *)
C11_Witness ==
    /\ pc = "loop"
    /\ Details # <<>>
    /\ Last(Details).mysql_table = "t1"
    /\ Last(Details).status = "success"
    /\ ~Last(Details).verified
    /\ Last(oplog)[2] = "verify"
    /\ migration_stats.success_tables >= 1

----------------------------------------------------------------------------
(* Claims about migrate_data's cursors, progress lines and the count,      *)
(* checked under SpecData                                                  *)

(* C12: on every exit of migrate_data (normal return, the empty-table      *)
(* early return, an exception at any step) every source cursor that was    *)
(* opened has been closed: none of cursor, count_cursor and schema_cursor  *)
(* is open.                                                                *)
C12_CursorsClosedOnExit ==
    pc = "data_return" => data.cursors \cap Cursors = {}

(* C13: whenever the stream of a transfer is exhausted after at least one  *)
(* row was read, for every row count n >= 1 and batch size b >= 1, the     *)
(* last progress line is a final line: 100%, all n rows, and the lifetime  *)
(* average speed n / elapsed for the elapsed time it reports.              *)
C13_FinalLineAtExhaustion ==
    (Completed /\ data.n >= 1) =>
        /\ progress # <<>>
        /\ Last(progress).final
        /\ Last(progress).percent = 10000
        /\ Last(progress).rows = data.n
        /\ \E t \in 0..data.now :
               /\ Last(progress).eta = FormatTime(t)
               /\ Last(progress).speed = SpeedOf(data.n, t)

(* The bulk writes of a transfer that reads a stream of n rows in batches  *)
(* of b, as a function of the stream alone.                                *)
WritesOf(n, b) ==
    [i \in 1..CeilDiv(n, b) |->
        [j \in 1..(IF i * b <= n THEN b ELSE n - b * (i - 1)) |->
            ConvertRow(SrcRow((i - 1) * b + j))]]

(* C14: the value returned by the count query is not a correctness gate:   *)
(* whatever it is (exact, zero, too small, too large), a transfer whose    *)
(* source and target calls all succeed on a table that is not found empty  *)
(* reads the stream to its end, does not raise, and issues the bulk writes *)
(* that the stream alone determines, so that any two count values lead to  *)
(* the same writes and none skips or fails the transfer.                   *)
C14_CountIsNotAGate ==
    (/\ pc = "data_return"
     /\ data_result.raised \notin IOFailures
     /\ data.first_row # None) =>
        /\ data_result.raised = None
        /\ data.first_row = "row"
        /\ data.pos = data.n
        /\ inserts = WritesOf(data.n, data.batch_size)
        /\ data_result.rows = data.n

(* C15: during a transfer a progress line is emitted after the first       *)
(* written batch and after every written batch whose ordinal is a multiple *)
(* of 10, however little time has elapsed: every such ordinal up to the    *)
(* current batch count (1, 10, 20, 30 over 35 batches) has its line.       *)
C15_EmissionCadence ==
    \A k \in 1..data.batch_count :
        (k = 1 \/ k % LogEvery = 0) =>
            \E i \in 1..Len(progress) : progress[i].batch = k

(* C16: every progress line of a transfer reports a cumulative row count   *)
(* not smaller than that of the line before it and a percentage within     *)
(* [0, 100], also when the count differs from the number of rows the       *)
(* stream yields.                                                          *)
C16_ProgressMonotoneBounded ==
    \A i \in 1..Len(progress) :
        /\ progress[i].percent >= 0
        /\ progress[i].percent <= 10000
        /\ i > 1 => progress[i - 1].rows <= progress[i].rows

(* C17: whenever a progress line with an ETA is emitted while the average  *)
(* speed is zero or negative, its ETA is rendered as "N/A" and never as a  *)
(* numeric duration.                                                       *)
C17_EtaUnavailableWithoutSpeed ==
    [][ (/\ pc = "flush"
         /\ Len(progress') = Len(progress) + 1
         /\ ~AvgSpeedPositive(data'.migrated_rows, data'.now)) =>
            Last(progress').eta = <<>> ]_vars

----------------------------------------------------------------------------
(* Claims about the task threads, checked under SpecLog and SpecTask *)

(* C18: no state is shared between concurrently running runs: in every     *)
(* interleaving of two runs started through start_task, every log record   *)
(* stored in the ledger is stored under the task id of the run that        *)
(* emitted it, whether it went through the task logger or through the      *)
(* root logger, and never under the other run's task id.                   *)
C18_LogsUnderOwnTask ==
    \A l \in ledger.logs : l.task_id = l.by

(* migrate_all_tables returned, as opposed to raised: the loop ran to its  *)
(* end, or there was no table.                                             *)
ReturnedNormally == idx > Len(tables) \/ tables = <<>>

(* C19: a failure of the ledger does not affect the migration outcome: if  *)
(* migrate_all_tables returned normally, then, whatever ledger call        *)
(* raised (update_task_status or add_table_migration), the finished task   *)
(* is not recorded as failed.                                              *)
C19_LedgerFailureDoesNotFailTask ==
    (pc = "finished" /\ ReturnedNormally) => ledger.status[TaskId] # "failed"

(* The tables of the run that reached a terminal state: the valid entries  *)
(* up to the loop index (the entry at the index is the one that aborted    *)
(* the run).                                                               *)
TerminalSeq ==
    SelectSeq(SubSeq(Indices, 1, Min(idx, Len(tables))), IsValidIndex)

(* C20: every table outcome is recorded individually: when a run is over,  *)
(* also one aborted by a failure under continue_on_error = false, each     *)
(* table that reached a terminal state has its record in the ledger, with  *)
(* status success, or failed with its error text.                          *)
C20_EveryOutcomeRecorded ==
    pc = "finished" =>
        LET records == ledger.table_migrations
        IN  /\ Len(records) = Len(TerminalSeq)
            /\ \A j \in 1..Len(records) :
                   /\ records[j].task_id = TaskId
                   /\ records[j].mysql_table = tables[TerminalSeq[j]].mysql_table
                   /\ records[j].status \in {"success", "failed"}
                   /\ records[j].status = "failed" =>
                          records[j].error_message # None

----------------------------------------------------------------------------
(* Claims about the connections, checked under SpecMain and SpecTask *)

(* A table has failed on a lost connection and its result was recorded. *)
LossObserved ==
    \E i \in 1..Len(Details) : Details[i].error = ConnectionLost

(* C21: a connection loss in the middle of a run is fatal for the whole    *)
(* run: once a table has failed on the lost connection, no later table is  *)
(* attempted, whether continue_on_error is enabled or disabled.            *)
C21_ConnectionLossIsFatal ==
    [][ LossObserved => ~(pc = "loop" /\ pc' = "structure") ]_vars

(* C22: every connection acquired at run start is closed on every exit     *)
(* path of the run (normal completion, a per-table failure, a fatal abort  *)
(* in the middle of the run, a fatal abort during connect() after one of   *)
(* the two connections was opened): when main is left, no connection is    *)
(* still open or lost without having been closed.                          *)
C22_ConnectionsClosedOnExit ==
    pc \in {"exit", "connect_failed"} =>
        \A c \in DOMAIN conn : conn[c] \notin {"open", "lost"}

(* connect() raised: the target connection was never acquired. *)
ConnectFailed == pc # "connect" /\ conn.ch = "none"

(* The run did nothing: no source or target operation, no target table,    *)
(* no result, no notification.                                             *)
NothingDone ==
    /\ oplog = <<>>
    /\ \A t \in TableNames : ~ch[t].exists /\ ch[t].rows = <<>>
    /\ migration_stats = NoStats
    /\ notifications = <<>>

----------------------------------------------------------------------------
(* Claims about the notifier, checked under SpecNotify *)

(* The step calls the notifier: one notification is appended. *)
Notifies == Len(notifications') = Len(notifications) + 1

(* C24: a notification delivery failure (HTTP error, timeout, non-zero     *)
(* response code or unparsable response) is never propagated: every step   *)
(* that calls notify_start, notify_success or notify_failure goes on as    *)
(* the code after the call prescribes, whatever the webhook did, and       *)
(* changes no table's outcome and no run statistic other than the ones     *)
(* the caller itself updates (total_tables at the start, failed_tables in  *)
(* the except branch, in the step of the operation that failed): the run   *)
(* is aborted only by the re-raise under continue_on_error = false.        *)
C24_DeliveryFailureNotPropagated ==
    [][ Notifies =>
          LET note == notifications'[Len(notifications')]
          IN  /\ IsStart(note) =>
                    /\ pc' = "loop"
                    /\ migration_stats' = [migration_stats EXCEPT
                                              !.total_tables = Len(tables)]
                    /\ ch' = ch /\ oplog' = oplog
              /\ IsSuccess(note) =>
                    /\ pc' = "done"
                    /\ migration_stats' = migration_stats
                    /\ ch' = ch /\ oplog' = oplog
              /\ IsFailure(note) =>
                    /\ pc' = IF advanced_config.continue_on_error
                               THEN "loop" ELSE "aborted"
                    /\ migration_stats' = [migration_stats EXCEPT
                                              !.failed_tables = @ + 1] ]_vars

(* C24 witness: a run whose start and success notifications both timed     *)
(* out has completed with its table migrated.                              *)
C24_Witness ==
    /\ webhook = "timeout"
    /\ pc = "done"
    /\ Len(notifications) = 2
    /\ IsStart(notifications[1]) /\ ~notifications[1].sent
    /\ IsSuccess(notifications[2]) /\ ~notifications[2].sent
    /\ migration_stats.success_tables >= 1
    /\ migration_stats.failed_tables = 0

----------------------------------------------------------------------------
(* Claims about the type conversion, checked under SpecType *)

(* The type name of the column, in lower case *)
TypeName == Lower(column.Type[1])

(* The column is an unsigned integer column: an integer type name, an      *)
(* optional display width, the unsigned qualifier.                         *)
IsUnsignedInteger ==
    /\ column.Type # <<>>
    /\ TypeName \in {"tinyint", "smallint", "mediumint", "int", "integer",
                     "bigint"}
    /\ \E a \in {<<>>, <<"(", "10", ")">>} :
       \E q \in {<<" unsigned">>, <<" UNSIGNED">>} :
           column.Type = <<column.Type[1]>> \o a \o q

(* The unsigned target type of the width of an integer type name *)
UnsignedOf(name) ==
    CASE name = "tinyint" -> <<"U", "Int8">>
      [] name = "smallint" -> <<"U", "Int16">>
      [] name \in {"mediumint", "int", "integer"} -> <<"U", "Int32">>
      [] name = "bigint" -> <<"U", "Int64">>

(* C25: for every unsigned integer source type (tinyint, smallint,         *)
(* mediumint, int, integer, bigint with the unsigned qualifier, with or    *)
(* without a display width) the conversion returns the unsigned target     *)
(* type of the matching width, wrapped in Nullable only when the column    *)
(* is nullable.                                                            *)
C25_UnsignedIntegerPromoted ==
    (pc = "converted" /\ IsUnsignedInteger) =>
        column_type = <<IF column.Null = "YES"
                          THEN Nullable(UnsignedOf(TypeName))
                          ELSE UnsignedOf(TypeName)>>

(* The returned type is Nullable(inner) *)
IsWrapped(ch_type, inner) ==
    /\ Len(ch_type) = Len(inner) + 3
    /\ SubSeq(ch_type, 1, 2) = <<"Nullable", "(">>
    /\ SubSeq(ch_type, 3, Len(ch_type) - 1) = inner
    /\ ch_type[Len(ch_type)] = ")"

(* The column is a decimal with a parenthesized precision *)
IsParameterizedDecimal ==
    /\ Len(column.Type) >= 4
    /\ TypeName = "decimal"
    /\ column.Type[2] = "("

(* What the wrapper has to enclose: the parameterized decimal, the         *)
(* unsigned-promoted integer, or the mapped type.                          *)
IsInner(inner) ==
    /\ inner # <<>>
    /\ inner[1] # "Nullable"
    /\ IsParameterizedDecimal =>
           inner = <<"Decimal", "(", column.Type[3], ")">>
    /\ (Len(column.Type) >= 5 /\ column.Type[2] = "("
        /\ TypeName \in {"tinyint", "smallint", "mediumint", "int",
                         "integer", "bigint"}
        /\ Lower(column.Type[5]) = " unsigned") =>
           inner = UnsignedOf(TypeName)

(* C26: for every source type string, recognized or not, the conversion    *)
(* returns a value (it never fails); the value is Nullable(...) exactly    *)
(* when the column is nullable, and the wrapper is the outermost layer,    *)
(* around the unsigned-promoted or parameterized-decimal type.             *)
C26_NullableWrapsLast ==
    pc = "converted" =>
        /\ Len(column_type) = 1
        /\ LET ch_type == column_type[1]
           IN  IF column.Null = "YES"
                 THEN \E inner \in {SubSeq(ch_type, 3, Len(ch_type) - 1)} :
                          IsWrapped(ch_type, inner) /\ IsInner(inner)
                 ELSE IsInner(ch_type)

(* C26 witness: a nullable decimal(10,2) unsigned column has been          *)
(* converted to Nullable(Decimal(10,2)).                                   *)
C26_Witness ==
    /\ pc = "converted"
    /\ column = [Type |-> <<"decimal", "(", "10,2", ")", " unsigned">>,
                 Null |-> "YES"]
    /\ column_type = <<<<"Nullable", "(", "Decimal", "(", "10,2", ")", ")">>>>

----------------------------------------------------------------------------
(* Claims about the steps of one table, checked under Spec *)

(* The operations issued for the i-th entry, in order *)
TableOps(i) ==
    LET OfEntry(entry) == entry[1] = i IN SelectSeq(oplog, OfEntry)

(* The step of migrate_table an operation belongs to: 1 structure and      *)
(* primary key (describe, then the key query), 3 drop, 4 create,           *)
(* 5 transfer, 6 verify.                                                   *)
StepOf(op) ==
    CASE op = "describe" -> 1
      [] op = "primary_key" -> 2
      [] op = "drop" -> 3
      [] op = "create" -> 4
      [] op \in {"count", "probe", "select", "fetch", "insert"} -> 5
      [] op = "verify" -> 6

(* What must have been done before an operation of the i-th entry *)
RequiredBefore(op) ==
    (IF StepOf(op) > 1 THEN {"describe"} ELSE {})
        \cup (IF StepOf(op) > 2 THEN {"primary_key"} ELSE {})
        \cup (IF StepOf(op) > 3 /\ advanced_config.drop_table_before_create
                THEN {"drop"} ELSE {})
        \cup (IF StepOf(op) > 4 THEN {"create"} ELSE {})
        \cup (IF StepOf(op) > 5 THEN {"count"} ELSE {})

(* C27: for each table the steps happen in the order read structure and    *)
(* primary key, drop target (if the policy is on), create target,          *)
(* transfer, verify (if requested), and a step is executed only if every   *)
(* earlier step finished without an exception; so the target is never      *)
(* dropped after a failed introspection and no row is written before the   *)
(* creation succeeded.                                                     *)
(* Stated of every step that issues an operation, against the operations  *)
(* issued before it for the same entry.                                    *)
C27_StepsInOrder ==
    [][ \/ oplog' = oplog
        \/ /\ Len(oplog') = Len(oplog) + 1
           /\ SubSeq(oplog', 1, Len(oplog)) = oplog
           /\ LET new == oplog'[Len(oplog')]
                  earlier == {j \in 1..Len(oplog) : oplog[j][1] = new[1]}
              IN  /\ \A j \in earlier :
                         /\ oplog[j][3]
                         /\ \/ StepOf(oplog[j][2]) < StepOf(new[2])
                            \/ StepOf(oplog[j][2]) = 5 /\ StepOf(new[2]) = 5
                  /\ RequiredBefore(new[2]) \subseteq
                         {oplog[j][2] : j \in earlier}
                  /\ new[2] = "drop" =>
                         advanced_config.drop_table_before_create
                  /\ new[2] = "verify" =>
                         Resolve(tables[new[1]].verify,
                                 migration_config.default_verify) ]_vars

(* C27 witness: the primary key query of the first table failed, its       *)
(* pre-existing target still holds its row, and the second table, whose   *)
(* verification is off, went through its steps up to the transfer.         *)
C27_Witness ==
    /\ Len(tables) = 2
    /\ pc = "done"
    /\ [k \in 1..Len(TableOps(1)) |-> TableOps(1)[k][2]]
           = <<"describe", "primary_key">>
    /\ ~TableOps(1)[2][3]
    /\ tables[1].ch_table = "t1" /\ tables[2].ch_table = "t2"
    /\ ch["t1"] = [exists |-> TRUE, rows |-> <<StaleRow>>]
    /\ Len(TableOps(2)) >= 6
    /\ \E k \in 1..Len(TableOps(2)) : TableOps(2)[k][2] = "insert"


(* C28: a table mapping entry that lacks the source or the target table    *)
(* name is skipped: the step that meets it issues no source or target      *)
(* operation, appends no result, changes neither success_tables nor        *)
(* failed_tables nor total_rows, sends no notification, and moves on to    *)
(* the next entry of the loop.                                             *)
C28_InvalidEntrySkipped ==
    [][ (pc = "loop" /\ idx <= Len(tables) /\ ~ValidEntry(tables[idx])) =>
            /\ oplog' = oplog
            /\ ch' = ch
            /\ inserts' = inserts
            /\ migration_stats'.table_details = migration_stats.table_details
            /\ migration_stats'.success_tables = migration_stats.success_tables
            /\ migration_stats'.failed_tables = migration_stats.failed_tables
            /\ migration_stats'.total_rows = migration_stats.total_rows
            /\ notifications' = notifications
            /\ pc' = "loop"
            /\ idx' = idx + 1 ]_vars

(* C28 witness: the first entry lacks its source table name, the second    *)
(* entry has been migrated, and the run has ended with one result, one     *)
(* success, no failure and operations on the second entry only.            *)
C28_Witness ==
    /\ Len(tables) = 2
    /\ tables[1].mysql_table = None
    /\ ValidEntry(tables[2])
    /\ pc = "done"
    /\ Len(Details) = 1
    /\ migration_stats.success_tables = 1
    /\ migration_stats.failed_tables = 0
    /\ oplog # <<>>
    /\ \A k \in 1..Len(oplog) : oplog[k][1] = 2


(* The place of the i-th entry among the results *)
ResultOf(i) ==
    Details[CHOOSE k \in 1..Len(FinishedSeq) : FinishedSeq[k] = i]

(* C29: after a read failure or a write failure during a transfer, the     *)
(* transfer is aborted at once: nothing more is read or written for that   *)
(* table (the failed batch is not retried), and the failure propagates to  *)
(* migrate_table, which fails the table with it.                           *)
C29_TransferAbortedOnFailure ==
    \A k \in 1..Len(oplog) :
        (oplog[k][2] \in {"select", "fetch", "insert"} /\ ~oplog[k][3]) =>
            LET i == oplog[k][1]
            IN  /\ \A j \in (k + 1)..Len(oplog) : oplog[j][1] # i
                /\ \/ /\ idx = i
                      /\ pc = "data_return"
                      /\ data_result.raised = oplog[k][2]
                   \/ /\ idx = i
                      /\ pc = "aborted"
                      /\ ~advanced_config.continue_on_error
                   \/ /\ idx > i
                      /\ advanced_config.continue_on_error
                      /\ ResultOf(i).status = "failed"
                      /\ ResultOf(i).error = oplog[k][2]

(* C29 witness: under continue_on_error the write of the first table's     *)
(* batch failed, the table has failed with that error after one write,     *)
(* and the second table has been transferred.                              *)
C29_Witness ==
    /\ advanced_config.continue_on_error
    /\ pc = "done"
    /\ Len(Details) = 2
    /\ Details[1].error = "insert"
    /\ Details[2].status = "success"
    /\ Len(SelectSeq(TableOps(1), LAMBDA e : e[2] = "insert")) = 1
    /\ ~TableOps(1)[Len(TableOps(1))][3]


(* The Python types of temporal values: date-time, date-only, time-of-day *)
TemporalKinds == {"datetime", "date", "timedelta"}

(* C30: every temporal value of a streamed row (date-time, date-only and   *)
(* time-of-day alike) is converted to a string before the row is appended  *)
(* to the batch: no batch handed to the target writer contains an          *)
(* unconverted temporal value.                                             *)
C30_NoTemporalValueWritten ==
    \A b \in 1..Len(inserts) :
        \A r \in 1..Len(inserts[b]) :
            \A c \in 1..Len(inserts[b][r]) :
                inserts[b][r][c].kind \notin TemporalKinds

----------------------------------------------------------------------------
(* Claims about what a transfer reports and writes *)

(* The step emits an in-loop progress line. *)
EmitsInLoop ==
    /\ Len(progress') = Len(progress) + 1
    /\ ~progress'[Len(progress')].final

(* The rows written since the previous in-loop line, or since the start *)
WrittenSinceLastLine ==
    progress'[Len(progress')].rows
        - (IF progress = <<>> THEN 0 ELSE progress[Len(progress)].rows)

(* C31: the speed of each in-loop progress line is the number of rows      *)
(* written since the previous line (since the start for the first line)    *)
(* divided by the time since that line, not the lifetime average; the      *)
(* value recent_batches * batch_size equals the rows written in that       *)
(* interval.                                                               *)
C31_SpeedIsRecent ==
    [][ EmitsInLoop =>
          LET line == progress'[Len(progress')]
              interval == data'.now - data.last_log_time
          IN  /\ (line.batch - data.last_batch_count) * data.batch_size
                     = WrittenSinceLastLine
              /\ interval > 0
              /\ line.speed = WrittenSinceLastLine \div interval ]_vars


(* The rows of a sequence of batches, in write order *)
RECURSIVE Concatenation(_)
Concatenation(batches) ==
    IF batches = <<>> THEN <<>>
    ELSE Head(batches) \o Concatenation(Tail(batches))

(* A written row is the streamed row: one value per column, in the column  *)
(* order, each value the streamed one or, for a date-time, its string.     *)
SameRow(written, streamed) ==
    /\ Len(written) = Len(streamed)
    /\ \A c \in 1..Len(streamed) :
           /\ written[c].v = streamed[c].v
           /\ \/ written[c].kind = streamed[c].kind
              \/ streamed[c].kind = "datetime" /\ written[c].kind = "str"

(* C32: in a transfer that completes without error, the concatenation of   *)
(* the batches written to the target, in write order, is the sequence of   *)
(* rows the streaming cursor returned: no row is lost, duplicated or       *)
(* reordered, and every written row has one value per resolved column in   *)
(* the resolved column order.                                              *)
C32_WritesAreTheStream ==
    Completed =>
        LET written == Concatenation(inserts)
        IN  /\ Len(written) = data.n
            /\ \A k \in 1..data.n : SameRow(written[k], SrcRow(k))
            /\ ch[data.ch_table].rows = written

(* C32 witness: a stream of 5 rows was written in batches of 2, 2 and 1,   *)
(* and the fifth written row is the fifth streamed row.                    *)
C32_Witness ==
    /\ Completed
    /\ data.n = 5
    /\ data.batch_size = 2
    /\ Len(inserts) = 3
    /\ Len(Concatenation(inserts)) = 5
    /\ Concatenation(inserts)[5] = SrcRow(5)

----------------------------------------------------------------------------
(* Claims about the results of a run, checked under Spec *)

IsInsert(entry) == entry[2] = "insert"

(* The bulk writes issued for the table at hand, in order; the j-th one    *)
(* wrote inserts[j].                                                       *)
InsertLog == SelectSeq(TableOps(idx), IsInsert)

(* The number of rows the first j bulk writes have put into the target:    *)
(* the rows of the writes that returned normally.                          *)
RECURSIVE RowsWritten(_)
RowsWritten(j) ==
    IF j = 0 THEN 0
    ELSE RowsWritten(j - 1) + (IF InsertLog[j][3] THEN Len(inserts[j]) ELSE 0)

(* The step records a table result. *)
RecordsResult == Len(Details') = Len(Details) + 1

(* C33: for every recorded table result, success or failed, its rows       *)
(* field is the number of rows that were written to the target for that    *)
(* table during the run.  Stated of the step that records the result,      *)
(* against the bulk writes issued for the table.                           *)
C33_ResultRowsAreRowsWritten ==
    [][ RecordsResult =>
          /\ Len(InsertLog) = Len(inserts)
          /\ Details'[Len(Details')].rows = RowsWritten(Len(inserts)) ]_vars

----------------------------------------------------------------------------
(* Claims about migrating a table twice, checked under SpecTwice *)

(* The rows of a source table of n rows, as the transfer writes them *)
Stream(n) == [k \in 1..n |-> ConvertRow(SrcRow(k))]

(* The first migration is over, or both are, or the run was aborted. *)
AfterFirst == (pc = "loop" /\ idx >= 2) \/ pc \in {"done", "aborted"}

(* C34: with drop_table_before_create enabled and an unchanged source      *)
(* table, migrating the same table mapping twice in succession is          *)
(* idempotent: after the first and after the second migration alike the    *)
(* target holds exactly the source's rows, each once, and verification     *)
(* has returned true both times.                                           *)
C34_TwiceIsIdempotent ==
    /\ AfterFirst =>
           /\ ch[tables[1].ch_table].exists
           /\ ch[tables[1].ch_table].rows = Stream(SourceRows(tables[1].mysql_table))
           /\ Len(Details) >= 1
           /\ \A k \in 1..Len(Details) : Details[k].verified
    /\ pc \in {"done", "aborted"} =>
           /\ pc = "done"
           /\ Len(Details) = 2


RECURSIVE SumOfRows(_)
SumOfRows(details) ==
    IF details = <<>> THEN 0 ELSE Head(details).rows + SumOfRows(Tail(details))

HasStatusSuccess(result) == result.status = "success"
HasStatusFailed(result) == result.status = "failed"

(* The failures that left migrate_table as an exception: the handler that  *)
(* counts such a failure is the one place that calls notify_failure.       *)
PropagatedFailures == Len(SelectSeq(notifications, IsFailure))

BetweenIterations == pc \in {"loop", "done", "aborted"}

(* C35: between two table iterations and at run end, total_rows is the sum *)
(* of rows over table_details, success_tables the number of results with   *)
(* status success, failed_tables the number of results with status failed  *)
(* plus the failures that propagated without a result, and table_details   *)
(* lists the results in the order the tables were attempted.               *)
C35_StatisticsMatchResults ==
    BetweenIterations =>
        /\ migration_stats.total_rows = SumOfRows(Details)
        /\ migration_stats.success_tables = Len(SelectSeq(Details, HasStatusSuccess))
        /\ migration_stats.failed_tables =
               Len(SelectSeq(Details, HasStatusFailed)) + PropagatedFailures
        /\ \A k \in 1..Len(Details) : Details[k].status \in {"success", "failed"}
        /\ Len(Details) = Len(FinishedSeq)
        /\ \A k \in 1..Len(Details) :
               /\ Details[k].mysql_table = tables[FinishedSeq[k]].mysql_table
               /\ Details[k].ch_table = tables[FinishedSeq[k]].ch_table

(* C35 witness: a run of two tables ended with a success that wrote rows    *)
(* followed by a recorded failure.                                          *)
C35_Witness ==
    /\ pc = "done"
    /\ Len(Details) = 2
    /\ Details[1].status = "success"
    /\ Details[1].rows > 0
    /\ Details[2].status = "failed"
    /\ migration_stats.total_rows = Details[1].rows
    /\ migration_stats.success_tables = 1
    /\ migration_stats.failed_tables = 1

(* C35 seen where a failure propagates: one failure counted, no result. *)
C35_Propagated ==
    /\ pc = "aborted"
    /\ PropagatedFailures = 1
    /\ Len(SelectSeq(Details, HasStatusFailed)) = 0
    /\ migration_stats.failed_tables = 1


----------------------------------------------------------------------------
(* Claims about the root logger after the tasks, checked under SpecLog *)

Started == { t \in Tasks : task[t].pc # "unstarted" }

AllRunsFinished ==
    /\ Started # {}
    /\ \A t \in Started : task[t].pc = "finished"

(* C36: once every run started through start_task has finished, the root   *)
(* logger's handler list is the one it had before the first run started    *)
(* (the empty list of AppIdle): no task's log handler stays installed.     *)
C36_HandlersRestored ==
    AllRunsFinished => root_handlers = <<>>

============================================================================
